---- MODULE Spec2Model ----
(***************************************************************************)
(* EventDispatcher (yaquawa/EventDispatcher, version 3.2.0): the Set-backed *)
(* dispatcher of src/unnamed/part_003, lines 1-317, as a state machine.     *)
(*                                                                         *)
(* The dispatcher is synchronous and single-threaded.  A handler is user    *)
(* code: while it runs it may call the dispatcher again (re-entrancy),      *)
(* return, or throw.  The model keeps the JavaScript call stack of the      *)
(* dispatcher calls that are waiting for a handler to come back; the        *)
(* handler on top of the stack is the code that is running.                 *)
(***************************************************************************)
EXTENDS Integers, Sequences, FiniteSets, TLC

(***************************************************************************)
(* Bounds of the exploration.                                               *)
(***************************************************************************)
\* Dispatcher calls (top-level and nested) in one behaviour.
MaxOps == 3
\* Dispatcher calls that may wait for a handler at the same time.
MaxDepth == 2
\* Event types in one multi-type submission.
MaxTypes == 2
\* Host objects instantiated from the class Api() returns.
MaxHosts == 2

(***************************************************************************)
(* The values the callers use.                                              *)
(***************************************************************************)
\* Event type names handed to the dispatcher.
EventTypes == {"click", "touchA", "clickX"}

\* The text of an event type, as the sequence of its parts (what a regular
\* expression is tested against).
TypeText(t) ==
  CASE t = "click"  -> <<"click">>
    [] t = "clickX" -> <<"click", "X">>
    [] t = "touchA" -> <<"touch", "A">>
    [] OTHER        -> <<t>>

\* User handler functions, by identity.
Handlers == {"h1", "h2"}

\* What each user handler returns.
ReturnValue(h) == IF h = "h1" THEN "r1" ELSE "r2"

\* An absent property / no value.
Absent == "-"

\* The `args` records given to trigger(eventType, args): no properties, and
\* {type: 'touchA', x: 1}, a record that itself carries a `type` property.
Payloads ==
  { [type |-> Absent, x |-> 0],
    [type |-> "touchA", x |-> 1] }

\* Receivers a caller may install with setCallbackContext.
Contexts == {"ctxA"}

\* The dispatcher itself as a receiver (`this`).
This == "dispatcher"

(***************************************************************************)
(* Validity rules: a string or a RegExp.  A RegExp is one of the shapes     *)
(* /lit/ (unanchored, lit may be empty: /.*/) and /^lit.*$/ (anchored).     *)
(***************************************************************************)
StringRule(s) == [regexp |-> FALSE, str |-> s, anchored |-> FALSE, lit |-> <<>>]

RegExpRule(anchored, lit) ==
  [regexp |-> TRUE, str |-> Absent, anchored |-> anchored, lit |-> lit]

\* validEventTypes = ['click', /^touch.*$/]
ScenarioRules == << StringRule("click"), RegExpRule(TRUE, <<"touch">>) >>

\* validEventTypes = [/click/]
PatternRules == << RegExpRule(FALSE, <<"click">>) >>

\* validEventTypes = ['click', /click/]: 'click' matches both rules.
OverlapRules == << StringRule("click"), RegExpRule(FALSE, <<"click">>) >>

\* The constructor's default, [/.*/].
DefaultRules == << RegExpRule(FALSE, <<>>) >>

\* The dispatchers that are constructed: ruleset and triggerLastEvent option.
Options ==
  { [validEventTypes |-> ScenarioRules, triggerLastEvent |-> FALSE],
    [validEventTypes |-> PatternRules, triggerLastEvent |-> TRUE] }

\* lit occurs in text starting at position i.
OccursAt(lit, text, i) ==
  /\ i + Len(lit) - 1 <= Len(text)
  /\ \A k \in 1..Len(lit) : text[i + k - 1] = lit[k]

\* RegExp.prototype.test for the shapes above.
RegExpTest(rule, t) ==
  LET text == TypeText(t) IN
  IF rule.anchored
    THEN OccursAt(rule.lit, text, 1)
    ELSE \E i \in 1..(Len(text) + 1) : OccursAt(rule.lit, text, i)

\* isRegexp(validEvent) ? validEvent.test(eventType) : eventType === validEvent
RuleMatches(rule, t) ==
  IF rule.regexp THEN RegExpTest(rule, t) ELSE t = rule.str

\* asArray(value): a single event type becomes a one-element array.
AsArray(t) == <<t>>

\* The two nested loops of isValidEvent, from position (i, j) on with
\* validEventCount = count: TRUE as soon as the count equals the number of
\* submitted types, FALSE when the loops run out.
RECURSIVE IsValidFrom(_, _, _, _, _)
IsValidFrom(rules, types, i, j, count) ==
  IF i > Len(types) THEN FALSE
  ELSE IF j > Len(rules) THEN IsValidFrom(rules, types, i + 1, 1, count)
  ELSE IF RuleMatches(rules[j], types[i])
    THEN IF count + 1 = Len(types)
           THEN TRUE
           ELSE IsValidFrom(rules, types, i, j + 1, count + 1)
    ELSE IsValidFrom(rules, types, i, j + 1, count)

IsValidEventAlways(rules, types) == TRUE

\* isValidEvent(eventType), on the array of submitted types.
IsValidEvent(rules, types) == IsValidFrom(rules, types, 1, 1, 0)

(***************************************************************************)
(* Callbacks, events, capabilities.                                         *)
(***************************************************************************)
\* A user handler as a Set member.
Plain(h) == [k |-> "fn", h |-> h, id |-> 0, type |-> Absent]

OnetimeAsPlain(n, T, h) == Plain(h)

\* The user handlers as `callback` arguments of off.
PlainCallbacks == { Plain(h) : h \in Handlers }

\* The onetimeCallback closure that one(eventType, callback) creates in its
\* n-th call: a new function identity per call.
Onetime(n, T, h) == [k |-> "once", h |-> h, id |-> n, type |-> T]

\* `callback` omitted.
NoCallback == [k |-> "none", h |-> Absent, id |-> 0, type |-> Absent]

NoEvent == [id |-> -1, type |-> Absent, x |-> 0]

\* defineProperties: every property of `properties` is assigned to the event.
DefineProperties(ev, properties) ==
  [ev EXCEPT !.type = IF properties.type # Absent THEN properties.type ELSE @,
             !.x = properties.x]

\* new Event(type, {properties}), the object created by the n-th call.
NewEvent(n, T, properties) ==
  DefineProperties([id |-> n, type |-> T, x |-> 0], properties)

\* Event objects the caller built itself (isEventObject is true of them).
EventObjects == { [id |-> 0, type |-> t, x |-> 1] : t \in EventTypes }

\* The OffEvent closure returned by on / one.
OffEvent(T, cb) == [type |-> T, cb |-> cb]

NoCap == OffEvent(Absent, NoCallback)

Range(s) == { s[i] : i \in DOMAIN s }

SetAddAgain(set, cb) == Append(set, cb)

SetAddFirst(set, cb) == IF cb \in Range(set) THEN set ELSE <<cb>> \o set

\* Set.prototype.add: insertion order, no duplicate.
SetAdd(set, cb) == IF cb \in Range(set) THEN set ELSE Append(set, cb)

\* Set.prototype.delete.
SetDelete(set, cb) == SelectSeq(set, LAMBDA c : c # cb)

\* Names every object inherits from Object.prototype: `name in obj` is true
\* of them for the plain objects `callbacks` and `lastEvents`.
ObjectPrototypeKeys == {"toString"}

\* hasCallbacks(eventType): eventType in this.callbacks
HasCallbacks(cbs, T) == T \in DOMAIN cbs \/ T \in ObjectPrototypeKeys


(***************************************************************************)
(* State.                                                                   *)
(***************************************************************************)
VARIABLES
  validEventTypes,   \* the ruleset given to the constructor
  triggerLastEvent,  \* the dispatcher-wide triggerLastEvent option
  callbacks,         \* own keys of this.callbacks -> Set, in insertion order
  lastEvents,        \* own keys of this.lastEvents -> event object
  disabled,          \* this.disabled
  callbackContext,   \* this.callbackContext
  stack,             \* dispatcher calls waiting for a handler, innermost last
  ret,               \* how the dispatcher call that ended last came back
  log,               \* every handler invocation so far, in order
  caps,              \* the OffEvent closures handed to the caller
  ops,               \* dispatcher calls made so far
  hist,              \* what the callers have done (history, not program state)
  hosts,             \* the dispatchers of the host objects built from Api()
  env                \* what the callers may do: the number of calls they make
                     \* (budget) and the event types they use (types)

vars ==
  << validEventTypes, triggerLastEvent, callbacks, lastEvents, disabled,
     callbackContext, stack, ret, log, caps, ops, hist, hosts, env >>

\* An object without own keys.
EmptyObject == [t \in {} |-> <<>>]

ReceiverThis(ctx) == This

\* this.callbackContext || this
Receiver(ctx) == IF ctx = "null" THEN This ELSE ctx

\* What is known when a call for type T starts (history carried by the call).
\*   dis0     the disabled flag
\*   bucket0  the Set of the type, in order (empty when there is none)
\*   regs0    the handlers registered for the type by on / one, in call order
\*   clean0   no removal has touched the type yet
\*   off0     the handlers h for which off(type, h) returned and that were
\*            not registered for the type again since
\*   cleared0 off(type) returned and nothing was registered for the type since
\*   wiped0   clear() returned and nothing was registered for the type since
\*   cancelled0  the one-time wrappers of the type whose OffEvent closure
\*            has been invoked
StartInfo(T) ==
  [ dis0    |-> disabled,
    bucket0 |-> IF T \in DOMAIN callbacks THEN callbacks[T] ELSE <<>>,
    regs0   |-> hist.regs[T],
    clean0  |-> T \notin hist.touched,
    off0    |-> { h \in Handlers : <<T, h>> \in hist.removed },
    cleared0 |-> T \in hist.cleared,
    wiped0  |-> T \in hist.wiped,
    cancelled0 |-> { c.cb : c \in { u \in hist.used : u.type = T /\ u.cb.k = "once" } },
    used0   |-> FALSE,
    spent0  |-> FALSE,
    opt0    |-> FALSE,
    last0   |-> FALSE,
    lastEv0 |-> NoEvent,
    given0  |-> NoEvent ]

NoInfo ==
  [ dis0 |-> FALSE, bucket0 |-> <<>>, regs0 |-> <<>>, clean0 |-> FALSE,
    off0 |-> {}, cleared0 |-> FALSE, wiped0 |-> FALSE, cancelled0 |-> {},
    used0 |-> FALSE,
    spent0 |-> FALSE,
    opt0 |-> FALSE,
    last0 |-> FALSE, lastEv0 |-> NoEvent, given0 |-> NoEvent ]

\* The same for a call of on / one for type T:
\*   dis0     the dispatcher was disabled
\*   opt0     triggerLastEvent was asked for (by the options or the default)
\*   last0    the last-event cache holds an entry for the type
\*   lastEv0  that entry
OnInfo(T, opt) ==
  [NoInfo EXCEPT !.dis0 = disabled,
                 !.opt0 = opt \/ triggerLastEvent,
                 !.last0 = T \in DOMAIN lastEvents,
                 !.lastEv0 = IF T \in DOMAIN lastEvents THEN lastEvents[T] ELSE NoEvent]

\* The same for the call of OffEvent closure c:
\*   used0   the closure has been invoked before
\*   spent0  ... and its handler has not been registered for its type since
ClosureInfo(c) ==
  [StartInfo(c.type) EXCEPT !.used0 = c \in hist.used, !.spent0 = c \in hist.spent]

\* The outcome of the n-th dispatcher call.
\*   out   "ok", "InvalidEventType", "TypeError" or "thrown" (a handler threw)
\*   kind  what came back: "null", "array", "event", "inherited", "cap",
\*         "this" or "none"
Result(n, op, T, out, kind, arr, ev, cap, g) ==
  [ n |-> n, op |-> op, type |-> T, out |-> out, kind |-> kind, arr |-> arr,
    ev |-> ev, cap |-> cap, g |-> g, d |-> 0 ]

NoResult == Result(0, "none", Absent, "ok", "none", <<>>, NoEvent, NoCap, NoInfo)

\* One handler invocation: made by call n (op, for type T), of Set member cb,
\* which runs the user handler cb.h with event ev as argument and ctx as
\* receiver.  d is the dispatcher the call was made on: 0, the dispatcher
\* itself, or the number of a host object.
Invocation(n, op, T, cb, ev, ctx) ==
  [ n |-> n, op |-> op, type |-> T, cb |-> cb, h |-> cb.h, ev |-> ev,
    ctx |-> ctx, d |-> 0 ]

\* A dispatcher call that waits for the handler it invoked.
Frame(n, op, T, ev, snap, idx, res, ctx, g) ==
  [ n |-> n, op |-> op, type |-> T, ev |-> ev, snap |-> snap, idx |-> idx,
    res |-> res, cb |-> snap[idx], h |-> snap[idx].h, ctx |-> ctx, g |-> g,
    d |-> 0 ]

AllTypes == EventTypes \cup ObjectPrototypeKeys

NoHistory ==
  [ regs    |-> [t \in AllTypes |-> <<>>],
    touched |-> {},
    removed |-> {},
    last    |-> [t \in AllTypes |-> [has |-> FALSE, ev |-> NoEvent, n |-> 0]],
    used    |-> {},
    spent   |-> {},
    ctx     |-> Absent,
    cleared |-> {},
    by      |-> {},
    offline |-> {},
    wiped   |-> {},
    dark    |-> {} ]

\* The dispatcher after construction, for callers of the given kind.
Constructed(options, budget, types) ==
  /\ validEventTypes = options.validEventTypes
  /\ triggerLastEvent = options.triggerLastEvent
  /\ env = [budget |-> budget, types |-> types]
  /\ callbacks = EmptyObject
  /\ lastEvents = EmptyObject
  /\ disabled = FALSE
  /\ callbackContext = This
  /\ stack = <<>>
  /\ ret = NoResult
  /\ log = <<>>
  /\ caps = {}
  /\ ops = 0
  /\ hist = NoHistory
  /\ hosts = <<>>

Init == \E options \in Options : Constructed(options, MaxOps, EventTypes)

\* Callers that stay with one valid and one invalid event type and make one
\* call more.
InitDeep ==
  Constructed([validEventTypes |-> ScenarioRules, triggerLastEvent |-> FALSE],
              MaxOps + 1, {"click", "clickX"})


(***************************************************************************)
(* Pieces of the operations.                                                *)
(***************************************************************************)
\* getLastEventObjectOf: eventType in this.lastEvents ? the entry : null.
\* "own" an own entry, "inherited" a member of Object.prototype, "null".
LastEventKind(last, T) ==
  IF T \in DOMAIN last THEN "event"
  ELSE IF T \in ObjectPrototypeKeys THEN "inherited"
  ELSE "null"

LastEventOf(last, T) == IF T \in DOMAIN last THEN last[T] ELSE NoEvent

\* delete obj[T]
DeleteKey(obj, T) == [t \in DOMAIN obj \ {T} |-> obj[t]]

RemoveLastEventAll(last, T) == EmptyObject

\* removeLastEventObjectOf: delete this.lastEvents[eventType]
RemoveLastEvent(last, T) == DeleteKey(last, T)

AddCallbackEveryBucket(cbs, T, cb) ==
  LET cbs1 == IF T \in DOMAIN cbs THEN cbs ELSE (T :> <<>>) @@ cbs
  IN  [t \in DOMAIN cbs1 |-> SetAdd(cbs1[t], cb)]

\* this.callbacks[T] = new Set() when T has no callbacks yet, then add.
AddCallback(cbs, T, cb) ==
  LET cbs1 == IF T \in DOMAIN cbs THEN cbs ELSE (T :> <<>>) @@ cbs
  IN  [cbs1 EXCEPT ![T] = SetAdd(@, cb)]

OffCallbacksPlainOnly(cbs, T, cb) ==
  IF T \notin DOMAIN cbs \/ cb.k = "once" THEN cbs
  ELSE IF cb = NoCallback THEN DeleteKey(cbs, T)
  ELSE [cbs EXCEPT ![T] = SetDelete(@, cb)]

OffCallbacksOnlyMember(cbs, T, cb) ==
  IF T \notin DOMAIN cbs THEN cbs ELSE [cbs EXCEPT ![T] = SetDelete(@, cb)]

OffCallbacksWholeKey(cbs, T, cb) ==
  IF T \notin DOMAIN cbs THEN cbs ELSE DeleteKey(cbs, T)

\* off(T, cb) after validation, on the callbacks object: nothing without
\* callbacks, the whole key without a callback, else the one Set member.
OffCallbacks(cbs, T, cb) ==
  IF T \notin DOMAIN cbs THEN cbs
  ELSE IF cb = NoCallback THEN DeleteKey(cbs, T)
  ELSE [cbs EXCEPT ![T] = SetDelete(@, cb)]

TriggerLastEventDefaultOnly(opt, dflt) == dflt

\* options?.triggerLastEvent || this.triggerLastEvent
TriggerLastEventOption(opt, dflt) == opt \/ dflt

BeforeHandlerNothing(cbs, cb) == cbs

\* What calling Set member cb does to the callbacks before the user handler
\* runs: a onetimeCallback first calls this.off(eventType, onetimeCallback)
\* (its type passed validation when it was registered; the ruleset is fixed).
BeforeHandler(cbs, cb) ==
  IF cb.k = "once" /\ IsValidEvent(validEventTypes, AsArray(cb.type))
    THEN OffCallbacks(cbs, cb.type, cb)
    ELSE cbs

StoreLastEventByEventType(last, T, ev) == (ev.type :> ev) @@ last

StoreLastEventNever(last, T, ev) == last

\* this.lastEvents[eventType] = eventObject
StoreLastEvent(last, T, ev) == (T :> ev) @@ last

TriggerSuppressedNever(dis, has) == ~has

\* if (this.disabled || !this.hasCallbacks(eventType)) return null
TriggerSuppressed(dis, has) == dis \/ ~has

\* Array.from(this.callbacksForEvent(T)): the members in insertion order (no
\* element for an inherited, non-iterable value).
ArrayFrom(cbs, T) == IF T \in DOMAIN cbs THEN cbs[T] ELSE <<>>

LiveDeliveryList(f) == ArrayFrom(callbacks, f.type)

DeliveryListWhileEnabled(f) ==
  IF disabled THEN SubSeq(f.snap, 1, f.idx) ELSE f.snap

\* The array trigger maps over: the copy made when the call started.
DeliveryList(f) == f.snap

(***************************************************************************)
(* History bookkeeping (what the callers did; no program state).            *)
(***************************************************************************)
Registered(h0, T, cb) ==
  [h0 EXCEPT !.regs[T] = Append(@, cb.h),
             !.removed = @ \ {<<T, cb.h>>},
             !.cleared = @ \ {T},
             !.wiped = @ \ {T},
             !.by = @ \cup {<<0, T, cb.h>>},
             !.offline = IF disabled THEN @ \cup {<<T, cb.h>>} ELSE @,
             !.spent = @ \ {OffEvent(T, cb)}]

\* dark: the Set members that were invoked while the dispatcher was disabled.
Invoked(h0, cb) ==
  [h0 EXCEPT !.touched = IF cb.k = "once" THEN @ \cup {cb.type} ELSE @,
             !.dark = IF disabled THEN @ \cup {cb} ELSE @]

OffReturned(h0, T, cb) ==
  [h0 EXCEPT !.touched = @ \cup {T},
             !.removed = IF cb.k = "fn" THEN @ \cup {<<T, cb.h>>} ELSE @,
             !.cleared = IF cb = NoCallback THEN @ \cup {T} ELSE @]

Triggered(h0, T, ev, n) ==
  [h0 EXCEPT !.last[T] = [has |-> TRUE, ev |-> ev, n |-> n]]

(***************************************************************************)
(* How a call ends or goes on.                                              *)
(***************************************************************************)
\* A call may start: from the top level or from the running handler.
CanCall == ops < env.budget /\ Len(stack) < MaxDepth

\* The call comes back at once with result r.
Complete(r, cbs, last, hs, cps) ==
  /\ ret' = r
  /\ callbacks' = cbs
  /\ lastEvents' = last
  /\ hist' = hs
  /\ caps' = cps
  /\ ops' = ops + 1
  /\ UNCHANGED << validEventTypes, triggerLastEvent, disabled, callbackContext,
                  stack, log, hosts, env >>

\* validateEventType throws: nothing else has happened.
Reject(n, op, T) ==
  Complete(Result(n, op, T, "InvalidEventType", "none", <<>>, NoEvent, NoCap, NoInfo),
           callbacks, lastEvents, hist, caps)

\* A method of an inherited, non-Set value is called: TypeError.
TypeError(n, op, T) ==
  Complete(Result(n, op, T, "TypeError", "none", <<>>, NoEvent, NoCap, NoInfo),
           callbacks, lastEvents, hist, caps)

\* The call invokes the first member of snap and waits for it.
Enter(n, op, T, ev, snap, cbs, last, hs, g) ==
  LET ctx == Receiver(callbackContext)
      cb  == snap[1]
  IN  /\ stack' = Append(stack, Frame(n, op, T, ev, snap, 1, <<>>, ctx, g))
      /\ log' = Append(log, Invocation(n, op, T, cb, ev, ctx))
      /\ callbacks' = BeforeHandler(cbs, cb)
      /\ lastEvents' = last
      /\ hist' = Invoked(hs, cb)
      /\ ops' = ops + 1
      /\ UNCHANGED << validEventTypes, triggerLastEvent, disabled,
                      callbackContext, ret, caps, hosts, env >>


(***************************************************************************)
(* on, one                                                                  *)
ReplayLastEventWhenEnabled(lastOpt, last, T) ==
  ~disabled /\ lastOpt /\ LastEventKind(last, T) # "null"

\* on: if (triggerLastEvent) { const lastEventObject = getLastEventObjectOf(T);
\* lastEventObject && callback.call(...) }. The disabled flag is not read.
ReplayLastEvent(lastOpt, last, T) ==
  lastOpt /\ LastEventKind(last, T) # "null"

(***************************************************************************)
\* The body of on(T, cb, {triggerLastEvent: opt}), the n-th call; op names
\* the public method that was called.
OnBody(n, op, T, cb, opt) ==
  IF ~IsValidEvent(validEventTypes, AsArray(T)) THEN Reject(n, op, T)
  ELSE IF HasCallbacks(callbacks, T) /\ T \notin DOMAIN callbacks
    THEN TypeError(n, op, T)
  ELSE
    LET lastOpt == TriggerLastEventOption(opt, triggerLastEvent)
        cbs1    == AddCallback(callbacks, T, cb)
        hs      == Registered(hist, T, cb)
    IN  IF ReplayLastEvent(lastOpt, lastEvents, T)
          THEN Enter(n, op, T, LastEventOf(lastEvents, T), <<cb>>, cbs1,
                     lastEvents, hs, OnInfo(T, opt))
          ELSE Complete(Result(n, op, T, "ok", "cap", <<>>, NoEvent,
                               OffEvent(T, cb), OnInfo(T, opt)),
                        cbs1, lastEvents, hs, caps \cup {OffEvent(T, cb)})

On(T, h, opt) ==
  /\ CanCall
  /\ OnBody(ops + 1, "on", T, Plain(h), opt)

One(T, h, opt) ==
  /\ CanCall
  /\ IF ~IsValidEvent(validEventTypes, AsArray(T))
       THEN Reject(ops + 1, "one", T)
       ELSE OnBody(ops + 1, "one", T, Onetime(ops + 1, T, h), opt)

(***************************************************************************)
(* off, the OffEvent closure, clear                                         *)
(***************************************************************************)
OffBody(n, op, T, cb, hs, g) ==
  IF ~IsValidEvent(validEventTypes, AsArray(T)) THEN Reject(n, op, T)
  ELSE IF HasCallbacks(callbacks, T) /\ T \notin DOMAIN callbacks /\ cb # NoCallback
    THEN TypeError(n, op, T)
  ELSE Complete(Result(n, op, T, "ok", "this", <<>>, NoEvent, OffEvent(T, cb), g),
                OffCallbacks(callbacks, T, cb), lastEvents,
                OffReturned(hs, T, cb), caps)

\* off(T, h) and, with cb = NoCallback, off(T).
Off(T, cb) ==
  /\ CanCall
  /\ OffBody(ops + 1, "off", T, cb, hist, NoInfo)

\* The caller invokes an OffEvent closure it holds: this.off(eventType, callback).
Unsubscribe(c) ==
  /\ CanCall
  /\ c \in caps
  /\ OffBody(ops + 1, "unsubscribe", c.type, c.cb,
             [hist EXCEPT !.used = @ \cup {c}, !.spent = @ \cup {c}],
             ClosureInfo(c))

ClearNothing(cbs) == cbs

\* clear: this.callbacks = {}
ClearCallbacks(cbs) == EmptyObject

Clear ==
  /\ CanCall
  /\ Complete(Result(ops + 1, "clear", Absent, "ok", "this", <<>>, NoEvent, NoCap, NoInfo),
              ClearCallbacks(callbacks), lastEvents,
              [hist EXCEPT !.touched = AllTypes, !.wiped = AllTypes], caps)

(***************************************************************************)
(* trigger                                                                  *)
(***************************************************************************)
\* trigger after eventObject and eventType have been worked out; given is the
\* event object the caller handed in, NoEvent when it gave a type.
TriggerBody(n, T, ev, given) ==
  IF ~IsValidEvent(validEventTypes, AsArray(T)) THEN Reject(n, "trigger", T)
  ELSE
    LET last1 == StoreLastEvent(lastEvents, T, ev)
        hs    == Triggered(hist, T, ev, n)
        g     == [StartInfo(T) EXCEPT !.given0 = given]
        snap  == ArrayFrom(callbacks, T)
    IN  IF TriggerSuppressed(disabled, HasCallbacks(callbacks, T))
          THEN Complete(Result(n, "trigger", T, "ok", "null", <<>>, ev, NoCap, g),
                        callbacks, last1, hs, caps)
        ELSE IF snap = <<>>
          THEN Complete(Result(n, "trigger", T, "ok", "array", <<>>, ev, NoCap, g),
                        callbacks, last1, hs, caps)
        ELSE Enter(n, "trigger", T, ev, snap, callbacks, last1, hs, g)

\* trigger(eventType, args)
Trigger(T, args) ==
  /\ CanCall
  /\ TriggerBody(ops + 1, T, NewEvent(ops + 1, T, args), NoEvent)

CopiedEventObject(n, ev) == [ev EXCEPT !.id = n]

\* isEventObject(eventTypeOrEventObject) ? eventTypeOrEventObject : ...
GivenEventObject(n, ev) == ev

\* trigger(eventObject)
TriggerEventObject(ev) ==
  /\ CanCall
  /\ TriggerBody(ops + 1, ev.type, GivenEventObject(ops + 1, ev), ev)

(***************************************************************************)
(* The running handler comes back.                                          *)
(***************************************************************************)
Top == stack[Len(stack)]

Pop == SubSeq(stack, 1, Len(stack) - 1)

\* The handler returns.  trigger goes on with the next element of its array,
\* or returns the responses; on / one return the OffEvent closure.
Return ==
  /\ stack # <<>>
  /\ Top.d = 0
  /\ LET f    == Top
         res1 == Append(f.res, ReturnValue(f.h))
         list == DeliveryList(f)
     IN  IF f.op = "trigger" /\ f.idx < Len(list)
           THEN LET cb  == list[f.idx + 1]
                    ctx == Receiver(callbackContext)
                IN  /\ stack' = Append(Pop, [f EXCEPT !.idx = f.idx + 1, !.res = res1,
                                                       !.cb = cb, !.h = cb.h, !.ctx = ctx])
                    /\ log' = Append(log, Invocation(f.n, f.op, f.type, cb, f.ev, ctx))
                    /\ callbacks' = BeforeHandler(callbacks, cb)
                    /\ hist' = Invoked(hist, cb)
                    /\ UNCHANGED << ret, caps >>
           ELSE /\ stack' = Pop
                /\ IF f.op = "trigger"
                     THEN /\ ret' = Result(f.n, f.op, f.type, "ok", "array", res1,
                                           f.ev, NoCap, f.g)
                          /\ caps' = caps
                     ELSE /\ ret' = Result(f.n, f.op, f.type, "ok", "cap", <<>>,
                                           f.ev, OffEvent(f.type, f.snap[1]), f.g)
                          /\ caps' = caps \cup {OffEvent(f.type, f.snap[1])}
                /\ UNCHANGED << log, callbacks, hist >>
  /\ UNCHANGED << validEventTypes, triggerLastEvent, lastEvents, disabled,
                  callbackContext, ops, hosts, env >>

UnwindNothing == stack

\* An exception leaves callback.call and the map / on around it: the waiting
\* call is gone.
Unwind == Pop

\* The handler throws: nothing catches it in the dispatcher, the waiting call
\* is left at once.  (The caller, a handler or the top level, goes on.)
Throw ==
  /\ stack # <<>>
  /\ stack' = Unwind
  /\ ret' = [Result(Top.n, Top.op, Top.type, "thrown", "none", Top.res, Top.ev,
                    NoCap, Top.g) EXCEPT !.d = Top.d]
  /\ UNCHANGED << validEventTypes, triggerLastEvent, callbacks, lastEvents,
                  disabled, callbackContext, log, caps, ops, hist, hosts, env >>

(***************************************************************************)
(* The small operations.                                                    *)
(***************************************************************************)
Flag(op, dis, ctx, hs) ==
  /\ CanCall
  /\ disabled' = dis
  /\ callbackContext' = ctx
  /\ hist' = hs
  /\ ret' = Result(ops + 1, op, Absent, "ok", "this", <<>>, NoEvent, NoCap, NoInfo)
  /\ ops' = ops + 1
  /\ UNCHANGED << validEventTypes, triggerLastEvent, callbacks, lastEvents,
                  stack, log, caps, hosts, env >>

DisableAndClear ==
  /\ CanCall
  /\ disabled' = TRUE
  /\ callbacks' = EmptyObject
  /\ ret' = Result(ops + 1, "disable", Absent, "ok", "this", <<>>, NoEvent, NoCap, NoInfo)
  /\ ops' = ops + 1
  /\ UNCHANGED << validEventTypes, triggerLastEvent, lastEvents, callbackContext,
                  stack, log, caps, hist, hosts, env >>

Disable == Flag("disable", TRUE, callbackContext, hist)

Enable == Flag("enable", FALSE, callbackContext, hist)

SetCallbackContext(c) ==
  Flag("setCallbackContext", disabled, c, [hist EXCEPT !.ctx = c])

GetLastEventObjectOf(T) ==
  /\ CanCall
  /\ Complete(Result(ops + 1, "getLastEventObjectOf", T, "ok",
                     LastEventKind(lastEvents, T), <<>>,
                     LastEventOf(lastEvents, T), NoCap, NoInfo),
              callbacks, lastEvents, hist, caps)

RemoveLastEventObjectOf(T) ==
  /\ CanCall
  /\ Complete(Result(ops + 1, "removeLastEventObjectOf", T, "ok",
                     LastEventKind(lastEvents, T), <<>>,
                     LastEventOf(lastEvents, T), NoCap, NoInfo),
              callbacks, RemoveLastEvent(lastEvents, T),
              [hist EXCEPT !.last[T] = [has |-> FALSE, ev |-> NoEvent, n |-> 0]],
              caps)

(***************************************************************************)
(* The specification.                                                       *)
(***************************************************************************)
Next ==
  \/ \E T \in env.types, h \in Handlers, opt \in BOOLEAN : On(T, h, opt)
  \/ \E T \in env.types, h \in Handlers, opt \in BOOLEAN : One(T, h, opt)
  \/ \E T \in env.types, cb \in PlainCallbacks : Off(T, cb)
  \/ \E T \in env.types : Off(T, NoCallback)
  \/ \E c \in caps : Unsubscribe(c)
  \/ Clear
  \/ \E T \in env.types, args \in Payloads : Trigger(T, args)
  \/ \E ev \in EventObjects : ev.type \in env.types /\ TriggerEventObject(ev)
  \/ Return
  \/ Throw
  \/ Disable
  \/ Enable
  \/ \E c \in Contexts : SetCallbackContext(c)
  \/ \E T \in env.types : GetLastEventObjectOf(T)
  \/ \E T \in env.types : RemoveLastEventObjectOf(T)

Spec == Init /\ [][Next]_vars

SpecDeep == InitDeep /\ [][Next]_vars

\* new EventDispatcher(): the default ruleset [/.*/], under which every name
\* is a valid event type; callers that use an ordinary name and the name of
\* a member every object inherits.
InitKeys ==
  Constructed([validEventTypes |-> DefaultRules, triggerLastEvent |-> FALSE],
              MaxOps, {"click"} \cup ObjectPrototypeKeys)

SpecKeys == InitKeys /\ [][Next]_vars

(***************************************************************************)
(* Multi-type submissions: on / off of the dispatcher that takes an array   *)
(* of event types (src/unnamed/part_004), which validates the whole array   *)
(* with the same isValidEvent and then applies the operation to each type.  *)
(* Its buckets are arrays.                                                  *)
(***************************************************************************)
\* The arrays of event types submitted.
Submissions == UNION { [1..n -> EventTypes] : n \in 1..MaxTypes }

\* The rulesets the multi-type dispatchers are constructed with.
MultiRuleSets == {ScenarioRules, PatternRules, OverlapRules}

InitMulti ==
  \E rules \in MultiRuleSets :
    Constructed([validEventTypes |-> rules, triggerLastEvent |-> FALSE],
                MaxOps, EventTypes)

\* on, for one type: this.callbacks[type] = [] when absent, then push(fn).
PushCallback(cbs, T, fn) ==
  LET cbs1 == IF T \in DOMAIN cbs THEN cbs ELSE (T :> <<>>) @@ cbs
  IN  [cbs1 EXCEPT ![T] = Append(@, fn)]

\* off, for one type: nothing without callbacks, the key without fn, else
\* every element equal to fn is spliced out.
SpliceCallback(cbs, T, fn) ==
  IF T \notin DOMAIN cbs THEN cbs
  ELSE IF fn = NoCallback THEN DeleteKey(cbs, T)
  ELSE [cbs EXCEPT ![T] = SelectSeq(@, LAMBDA c : c # fn)]

\* eventTypes.forEach(...) of on and of off, from element i on.
RECURSIVE OnEachFrom(_, _, _, _)
OnEachFrom(cbs, types, i, fn) ==
  IF i > Len(types) THEN cbs
  ELSE OnEachFrom(PushCallback(cbs, types[i], fn), types, i + 1, fn)

RECURSIVE OffEachFrom(_, _, _, _)
OffEachFrom(cbs, types, i, fn) ==
  IF i > Len(types) THEN cbs
  ELSE OffEachFrom(SpliceCallback(cbs, types[i], fn), types, i + 1, fn)

\* forEachEventType: validateEventType(eventTypes), then the operation on
\* each type; cbs is what the operation leaves when it is applied to all.
ForEachEventType(n, op, types, fn, cbs) ==
  IF ~IsValidEvent(validEventTypes, types)
    THEN Reject(n, op, types)
    ELSE Complete(Result(n, op, types, "ok", "this", <<>>, NoEvent,
                         OffEvent(Absent, fn), NoInfo),
                  cbs, lastEvents, hist, caps)

\* on(eventTypes, fn)
OnTypes(types, fn) ==
  /\ CanCall
  /\ ForEachEventType(ops + 1, "on", types, fn, OnEachFrom(callbacks, types, 1, fn))

\* off(eventTypes, fn) and off(eventTypes)
OffTypes(types, fn) ==
  /\ CanCall
  /\ ForEachEventType(ops + 1, "off", types, fn, OffEachFrom(callbacks, types, 1, fn))

NextMulti ==
  \/ \E types \in Submissions, fn \in PlainCallbacks : OnTypes(types, fn)
  \/ \E types \in Submissions, fn \in PlainCallbacks : OffTypes(types, fn)
  \/ \E types \in Submissions : OffTypes(types, NoCallback)

SpecMulti == InitMulti /\ [][NextMulti]_vars


(***************************************************************************)
(* Api(): a class whose instances (hosts) each construct a dispatcher of    *)
(* their own, with the ruleset and the triggerLastEvent default of the      *)
(* dispatcher Api() was called on, and forward on / off / one / trigger to  *)
(* it.  hosts[d] is the dispatcher of host d.                               *)
(***************************************************************************)
\* The dispatchers of the hosts, as receivers.
HostNames == << "host1", "host2", "host3" >>

HostThis(d) == HostNames[d]

\* new EventDispatcher({ validEventTypes, triggerLastEvent })
NewDispatcher(rules, dflt, self) ==
  [ validEventTypes |-> rules, triggerLastEvent |-> dflt,
    callbacks |-> EmptyObject, lastEvents |-> EmptyObject,
    disabled |-> FALSE, callbackContext |-> self ]

\* new (ed.Api())(): the constructor calls createInstance().
NewHost ==
  /\ Len(hosts) < MaxHosts
  /\ hosts' = Append(hosts, NewDispatcher(validEventTypes, triggerLastEvent,
                                          HostThis(Len(hosts) + 1)))
  /\ UNCHANGED << validEventTypes, triggerLastEvent, callbacks, lastEvents,
                  disabled, callbackContext, stack, ret, log, caps, ops, hist,
                  env >>

CallbacksOfOriginal(d) == callbacks

\* this.eventDispatcher.callbacks of host d.
CallbacksOf(d) == hosts[d].callbacks

\* this.callbackContext || this, in the dispatcher of host d.
HostReceiver(disp, d) ==
  IF disp.callbackContext = "null" THEN HostThis(d) ELSE disp.callbackContext

\* BeforeHandler, in dispatcher disp.
HostBeforeHandler(disp, cb) ==
  IF cb.k = "once" /\ IsValidEvent(disp.validEventTypes, AsArray(cb.type))
    THEN OffCallbacks(disp.callbacks, cb.type, cb)
    ELSE disp.callbacks

\* What holds when a call for type T starts on dispatcher disp.
HostStartInfo(disp, T) ==
  [NoInfo EXCEPT !.dis0 = disp.disabled,
                 !.bucket0 = IF T \in DOMAIN disp.callbacks
                               THEN disp.callbacks[T] ELSE <<>>]

\* A call on host d comes back at once with result r, its dispatcher being
\* disp1 then.  (The callers do not keep the closures hosts return.)
HostComplete(d, r, disp1, hs) ==
  /\ ret' = [r EXCEPT !.d = d]
  /\ hosts' = [hosts EXCEPT ![d] = disp1]
  /\ hist' = hs
  /\ ops' = ops + 1
  /\ UNCHANGED << validEventTypes, triggerLastEvent, callbacks, lastEvents,
                  disabled, callbackContext, stack, log, caps, env >>

HostReject(d, n, op, T) ==
  HostComplete(d, Result(n, op, T, "InvalidEventType", "none", <<>>, NoEvent,
                         NoCap, NoInfo),
               hosts[d], hist)

HostTypeError(d, n, op, T) ==
  HostComplete(d, Result(n, op, T, "TypeError", "none", <<>>, NoEvent, NoCap,
                         NoInfo),
               hosts[d], hist)

\* The call on host d invokes the first member of snap and waits for it.
HostEnter(d, n, op, T, ev, snap, disp1, hs, g) ==
  LET ctx == HostReceiver(disp1, d)
      cb  == snap[1]
  IN  /\ stack' = Append(stack, [Frame(n, op, T, ev, snap, 1, <<>>, ctx, g)
                                   EXCEPT !.d = d])
      /\ log' = Append(log, [Invocation(n, op, T, cb, ev, ctx) EXCEPT !.d = d])
      /\ hosts' = [hosts EXCEPT
                     ![d] = [disp1 EXCEPT !.callbacks = HostBeforeHandler(disp1, cb)]]
      /\ hist' = hs
      /\ ops' = ops + 1
      /\ UNCHANGED << validEventTypes, triggerLastEvent, callbacks, lastEvents,
                      disabled, callbackContext, ret, caps, env >>

\* The start of an on / one call on a host, for type T, the caller having
\* given {triggerLastEvent: opt} as third argument:
\*   opt0     triggerLastEvent was asked for (by that argument or the default)
\*   last0    the host's last-event cache holds an entry for the type
\*   lastEv0  that entry
HostOnInfo(disp, T, opt) ==
  [HostStartInfo(disp, T) EXCEPT
     !.opt0 = opt \/ disp.triggerLastEvent,
     !.last0 = T \in DOMAIN disp.lastEvents,
     !.lastEv0 = LastEventOf(disp.lastEvents, T)]

HostForwardedOptionsAll(opt) == opt

\* on(eventType, fn) { return this.eventDispatcher.on(eventType, fn) }: the
\* host's methods take two parameters and pass two on, so the dispatcher's
\* `options` is undefined and options?.triggerLastEvent is falsy.
HostForwardedOptions(opt) == FALSE

\* this.eventDispatcher.on(eventType, fn), the caller having called the host
\* with {triggerLastEvent: opt} as third argument.
HostOnBody(d, n, op, T, cb, opt) ==
  LET disp == hosts[d] IN
  IF ~IsValidEvent(disp.validEventTypes, AsArray(T)) THEN HostReject(d, n, op, T)
  ELSE IF HasCallbacks(disp.callbacks, T) /\ T \notin DOMAIN disp.callbacks
    THEN HostTypeError(d, n, op, T)
  ELSE
    LET lastOpt == TriggerLastEventOption(HostForwardedOptions(opt),
                                          disp.triggerLastEvent)
        disp1   == [disp EXCEPT !.callbacks = AddCallback(@, T, cb)]
        hs      == [hist EXCEPT !.by = @ \cup {<<d, T, cb.h>>}]
    IN  IF ReplayLastEvent(lastOpt, disp.lastEvents, T)
          THEN HostEnter(d, n, op, T, LastEventOf(disp.lastEvents, T), <<cb>>,
                         disp1, hs, HostOnInfo(disp, T, opt))
          ELSE HostComplete(d, Result(n, op, T, "ok", "cap", <<>>, NoEvent,
                                      OffEvent(T, cb), HostOnInfo(disp, T, opt)),
                            disp1, hs)

HostOn(d, T, h, opt) ==
  /\ CanCall
  /\ d \in DOMAIN hosts
  /\ HostOnBody(d, ops + 1, "on", T, Plain(h), opt)

\* this.eventDispatcher.one(eventType, fn)
HostOne(d, T, h, opt) ==
  /\ CanCall
  /\ d \in DOMAIN hosts
  /\ IF ~IsValidEvent(hosts[d].validEventTypes, AsArray(T))
       THEN HostReject(d, ops + 1, "one", T)
       ELSE HostOnBody(d, ops + 1, "one", T, Onetime(ops + 1, T, h), opt)

\* this.eventDispatcher.off(eventType, fn)
HostOff(d, T, cb) ==
  /\ CanCall
  /\ d \in DOMAIN hosts
  /\ LET disp == hosts[d] IN
     IF ~IsValidEvent(disp.validEventTypes, AsArray(T))
       THEN HostReject(d, ops + 1, "off", T)
     ELSE IF /\ HasCallbacks(disp.callbacks, T) /\ T \notin DOMAIN disp.callbacks
             /\ cb # NoCallback
       THEN HostTypeError(d, ops + 1, "off", T)
     ELSE HostComplete(d, Result(ops + 1, "off", T, "ok", "this", <<>>, NoEvent,
                                 OffEvent(T, cb), HostStartInfo(disp, T)),
                       [disp EXCEPT !.callbacks = OffCallbacks(@, T, cb)], hist)

\* this.eventDispatcher.trigger(eventTypeOrEventObject, args)
HostTriggerBody(d, n, T, ev) ==
  LET disp == hosts[d] IN
  IF ~IsValidEvent(disp.validEventTypes, AsArray(T))
    THEN HostReject(d, n, "trigger", T)
  ELSE
    LET disp1 == [disp EXCEPT !.lastEvents = StoreLastEvent(@, T, ev)]
        g     == HostStartInfo(disp, T)
        snap  == ArrayFrom(CallbacksOf(d), T)
    IN  IF TriggerSuppressed(disp.disabled, HasCallbacks(disp.callbacks, T))
          THEN HostComplete(d, Result(n, "trigger", T, "ok", "null", <<>>, ev,
                                      NoCap, g), disp1, hist)
        ELSE IF snap = <<>>
          THEN HostComplete(d, Result(n, "trigger", T, "ok", "array", <<>>, ev,
                                      NoCap, g), disp1, hist)
        ELSE HostEnter(d, n, "trigger", T, ev, snap, disp1, hist, g)

HostTrigger(d, T, args) ==
  /\ CanCall
  /\ d \in DOMAIN hosts
  /\ HostTriggerBody(d, ops + 1, T, NewEvent(ops + 1, T, args))

HostTriggerEventObject(d, ev) ==
  /\ CanCall
  /\ d \in DOMAIN hosts
  /\ HostTriggerBody(d, ops + 1, ev.type, ev)

\* The handler a host's dispatcher invoked returns.
HostReturn ==
  /\ stack # <<>>
  /\ Top.d > 0
  /\ LET f    == Top
         d    == f.d
         disp == hosts[d]
         res1 == Append(f.res, ReturnValue(f.h))
         list == DeliveryList(f)
     IN  IF f.op = "trigger" /\ f.idx < Len(list)
           THEN LET cb  == list[f.idx + 1]
                    ctx == HostReceiver(disp, d)
                IN  /\ stack' = Append(Pop, [f EXCEPT !.idx = f.idx + 1, !.res = res1,
                                                       !.cb = cb, !.h = cb.h, !.ctx = ctx])
                    /\ log' = Append(log, [Invocation(f.n, f.op, f.type, cb, f.ev, ctx)
                                             EXCEPT !.d = d])
                    /\ hosts' = [hosts EXCEPT
                                   ![d] = [disp EXCEPT !.callbacks = HostBeforeHandler(disp, cb)]]
                    /\ UNCHANGED ret
           ELSE /\ stack' = Pop
                /\ ret' = IF f.op = "trigger"
                            THEN [Result(f.n, f.op, f.type, "ok", "array", res1, f.ev,
                                         NoCap, f.g) EXCEPT !.d = d]
                            ELSE [Result(f.n, f.op, f.type, "ok", "cap", <<>>, f.ev,
                                         OffEvent(f.type, f.snap[1]), f.g) EXCEPT !.d = d]
                /\ UNCHANGED << log, hosts >>
  /\ UNCHANGED << validEventTypes, triggerLastEvent, callbacks, lastEvents,
                  disabled, callbackContext, caps, ops, hist, env >>

\* Callers that use one valid event type and one other, on the dispatcher and
\* on hosts.
InitApi == \E options \in Options : Constructed(options, MaxOps, {"click", "clickX"})

NextApi ==
  \/ Next
  \/ NewHost
  \/ \E d \in DOMAIN hosts, T \in env.types, h \in Handlers, opt \in BOOLEAN :
       HostOn(d, T, h, opt)
  \/ \E d \in DOMAIN hosts, T \in env.types, h \in Handlers, opt \in BOOLEAN :
       HostOne(d, T, h, opt)
  \/ \E d \in DOMAIN hosts, T \in env.types, cb \in PlainCallbacks : HostOff(d, T, cb)
  \/ \E d \in DOMAIN hosts, T \in env.types : HostOff(d, T, NoCallback)
  \/ \E d \in DOMAIN hosts, T \in env.types, args \in Payloads : HostTrigger(d, T, args)
  \/ \E d \in DOMAIN hosts, ev \in EventObjects :
       ev.type \in env.types /\ HostTriggerEventObject(d, ev)
  \/ HostReturn

SpecApi == InitApi /\ [][NextApi]_vars

(***************************************************************************)
(* The array-backed dispatcher: the handlers of a type are kept in an       *)
(* array, on pushes, off splices, and trigger maps over the array itself,   *)
(* not over a copy.  It has no last-event cache and no OffEvent closure.    *)
(* A waiting trigger holds the array by reference: att says that the array  *)
(* is still the one under this.callbacks[type]; after off(type) deleted the *)
(* key the waiting call is the only holder, and snap is the array.          *)
(***************************************************************************)
\* An index that Array.prototype.map skipped: an empty slot of the result.
Hole == "hole"

InitArray ==
  Constructed([validEventTypes |-> ScenarioRules, triggerLastEvent |-> FALSE],
              MaxOps + 1, {"click", "clickX"})

\* The array the waiting trigger f maps over, as it is now.
MappedArray(f) == IF f.att THEN ArrayFrom(callbacks, f.type) ELSE f.snap

\* The one-time callback calls this.off(eventType, callback) before fn.
ArrayBeforeHandler(cbs, cb) ==
  IF cb.k = "once" THEN SpliceCallback(cbs, cb.type, cb) ELSE cbs

\* delete this.callbacks[eventType]: the calls that map over that array keep
\* it, nobody else reaches it any more.
Detach(stk, T) ==
  [ k \in DOMAIN stk |->
      IF stk[k].type = T /\ stk[k].att
        THEN [stk[k] EXCEPT !.att = FALSE, !.snap = ArrayFrom(callbacks, T)]
        ELSE stk[k] ]

ArrayFrame(n, T, ev, arr, k, res, ctx, g) ==
  [ n |-> n, op |-> "trigger", type |-> T, ev |-> ev, snap |-> arr, idx |-> k,
    res |-> res, cb |-> arr[k], h |-> arr[k].h, ctx |-> ctx, g |-> g, d |-> 0,
    att |-> TRUE ]

\* on(eventType, fn)
ArrayOnBody(n, op, T, fn) ==
  IF ~IsValidEvent(validEventTypes, AsArray(T)) THEN Reject(n, op, T)
  ELSE Complete(Result(n, op, T, "ok", "this", <<>>, NoEvent, NoCap, StartInfo(T)),
                PushCallback(callbacks, T, fn), lastEvents,
                Registered(hist, T, fn), caps)

ArrayOn(T, h) ==
  /\ CanCall
  /\ ArrayOnBody(ops + 1, "on", T, Plain(h))

\* one(eventType, fn)
ArrayOne(T, h) ==
  /\ CanCall
  /\ ArrayOnBody(ops + 1, "one", T, Onetime(ops + 1, T, h))

\* off(eventType, fn) and, with fn = NoCallback, off(eventType)
ArrayOff(T, fn) ==
  /\ CanCall
  /\ IF ~IsValidEvent(validEventTypes, AsArray(T)) THEN Reject(ops + 1, "off", T)
     ELSE /\ ret' = Result(ops + 1, "off", T, "ok", "this", <<>>, NoEvent,
                           OffEvent(T, fn), StartInfo(T))
          /\ callbacks' = SpliceCallback(callbacks, T, fn)
          /\ stack' = IF fn = NoCallback THEN Detach(stack, T) ELSE stack
          /\ hist' = OffReturned(hist, T, fn)
          /\ ops' = ops + 1
          /\ UNCHANGED << validEventTypes, triggerLastEvent, lastEvents, disabled,
                          callbackContext, log, caps, hosts, env >>

\* trigger(eventType, args)
ArrayTrigger(T, args) ==
  LET n   == ops + 1
      ev  == NewEvent(n, T, args)
      g   == StartInfo(T)
      arr == ArrayFrom(callbacks, T)
      ctx == Receiver(callbackContext)
  IN  /\ CanCall
      /\ IF ~IsValidEvent(validEventTypes, AsArray(T)) THEN Reject(n, "trigger", T)
         ELSE IF TriggerSuppressed(disabled, HasCallbacks(callbacks, T))
           THEN Complete(Result(n, "trigger", T, "ok", "null", <<>>, ev, NoCap, g),
                         callbacks, lastEvents, hist, caps)
         ELSE IF arr = <<>>
           THEN Complete(Result(n, "trigger", T, "ok", "array", <<>>, ev, NoCap, g),
                         callbacks, lastEvents, hist, caps)
         ELSE /\ stack' = Append(stack, ArrayFrame(n, T, ev, arr, 1, <<>>, ctx, g))
              /\ log' = Append(log, Invocation(n, "trigger", T, arr[1], ev, ctx))
              /\ callbacks' = ArrayBeforeHandler(callbacks, arr[1])
              /\ hist' = Invoked(hist, arr[1])
              /\ ops' = ops + 1
              /\ UNCHANGED << validEventTypes, triggerLastEvent, lastEvents,
                              disabled, callbackContext, ret, caps, hosts, env >>

\* The responses map returns: one slot per index of the array as it was when
\* map started, empty from the first index the array no longer had.
Responses(res, len) == [ i \in 1..len |-> IF i <= Len(res) THEN res[i] ELSE Hole ]

\* The handler returns.  map goes on with the next index below the length
\* the array had when map started, if the array still has that index; the
\* array is dense, so the first missing index ends the iteration.
ArrayReturn ==
  /\ stack # <<>>
  /\ LET f    == Top
         res1 == Append(f.res, ReturnValue(f.h))
         arr  == MappedArray(f)
         len  == Len(f.g.bucket0)
         k    == f.idx + 1
     IN  IF k <= len /\ k <= Len(arr)
           THEN LET cb  == arr[k]
                    ctx == Receiver(callbackContext)
                IN  /\ stack' = Append(Pop, [f EXCEPT !.idx = k, !.res = res1,
                                                       !.cb = cb, !.h = cb.h, !.ctx = ctx])
                    /\ log' = Append(log, Invocation(f.n, f.op, f.type, cb, f.ev, ctx))
                    /\ callbacks' = ArrayBeforeHandler(callbacks, cb)
                    /\ hist' = Invoked(hist, cb)
                    /\ UNCHANGED ret
           ELSE /\ stack' = Pop
                /\ ret' = Result(f.n, f.op, f.type, "ok", "array",
                                  Responses(res1, len), f.ev, NoCap, f.g)
                /\ UNCHANGED << log, callbacks, hist >>
  /\ UNCHANGED << validEventTypes, triggerLastEvent, lastEvents, disabled,
                  callbackContext, caps, ops, hosts, env >>

NextArray ==
  \/ \E T \in env.types, h \in Handlers : ArrayOn(T, h)
  \/ \E T \in env.types, h \in Handlers : ArrayOne(T, h)
  \/ \E T \in env.types, fn \in PlainCallbacks : ArrayOff(T, fn)
  \/ \E T \in env.types : ArrayOff(T, NoCallback)
  \/ \E T \in env.types, args \in Payloads : ArrayTrigger(T, args)
  \/ ArrayReturn
  \/ Throw
  \/ Disable
  \/ Enable

SpecArray == InitArray /\ [][NextArray]_vars

(***************************************************************************)
(* A ruleset with a global regular expression.  A RegExp that carries the   *)
(* g flag keeps lastIndex between calls of test: the search starts there,   *)
(* a match moves lastIndex behind it and a failure sets it back to 0.       *)
(* isValidEvent calls validEvent.test on the rule objects of the ruleset    *)
(* itself.  Positions count the parts of TypeText; lastIndex is 0-based.    *)
(***************************************************************************)
\* /lit/g with the given lastIndex.
GlobalRegExpRule(lit, lastIndex) ==
  [regexp |-> TRUE, str |-> Absent, anchored |-> FALSE, lit |-> lit,
   lastIndex |-> lastIndex]

\* validEventTypes = [/click/g]
GlobalRules == << GlobalRegExpRule(<<"click">>, 0) >>

\* Where rule matches in the text of t, from lastIndex on.
MatchStarts(rule, t) ==
  { i \in (rule.lastIndex + 1)..(Len(TypeText(t)) + 1) :
      OccursAt(rule.lit, TypeText(t), i) }

\* validEvent.test(eventType) on a global RegExp: the value it returns.
GlobalTest(rule, t) == MatchStarts(rule, t) # {}

\* validEvent.test(eventType) on a global RegExp: the rule afterwards.
LastIndexAfterTest(rule, t) ==
  LET starts == MatchStarts(rule, t)
      first  == CHOOSE i \in starts : \A k \in starts : i <= k
  IN  [rule EXCEPT !.lastIndex =
         IF starts = {} THEN 0 ELSE first - 1 + Len(rule.lit)]

\* The two nested loops of isValidEvent over rules that keep a lastIndex,
\* from position (i, j) on: the value returned and the rules afterwards.
RECURSIVE ValidateFrom(_, _, _, _, _)
ValidateFrom(rules, types, i, j, count) ==
  IF i > Len(types) THEN [valid |-> FALSE, rules |-> rules]
  ELSE IF j > Len(rules) THEN ValidateFrom(rules, types, i + 1, 1, count)
  ELSE
    LET rules1 == [rules EXCEPT ![j] = LastIndexAfterTest(rules[j], types[i])]
    IN  IF GlobalTest(rules[j], types[i])
          THEN IF count + 1 = Len(types)
                 THEN [valid |-> TRUE, rules |-> rules1]
                 ELSE ValidateFrom(rules1, types, i, j + 1, count + 1)
          ELSE ValidateFrom(rules1, types, i, j + 1, count)

\* isValidEvent(eventType) on the ruleset as it is now.
Validate(T) == ValidateFrom(validEventTypes, AsArray(T), 1, 1, 0)

\* new EventDispatcher({ validEventTypes: [/click/g] })
InitFlags ==
  Constructed([validEventTypes |-> GlobalRules, triggerLastEvent |-> FALSE],
              MaxOps + 1, EventTypes)

\* The call comes back at once with result r; its validation left rules.
FlagsComplete(r, cbs, last, hs, cps, rules) ==
  /\ ret' = r
  /\ callbacks' = cbs
  /\ lastEvents' = last
  /\ hist' = hs
  /\ caps' = cps
  /\ validEventTypes' = rules
  /\ ops' = ops + 1
  /\ UNCHANGED << triggerLastEvent, disabled, callbackContext, stack, log,
                  hosts, env >>

\* validateEventType throws.
FlagsReject(n, op, T, rules) ==
  FlagsComplete(Result(n, op, T, "InvalidEventType", "none", <<>>, NoEvent,
                       NoCap, NoInfo),
                callbacks, lastEvents, hist, caps, rules)

\* The call invokes the first member of snap and waits for it.
FlagsEnter(n, op, T, ev, snap, cbs, last, hs, g, rules) ==
  LET ctx == Receiver(callbackContext)
      cb  == snap[1]
  IN  /\ stack' = Append(stack, Frame(n, op, T, ev, snap, 1, <<>>, ctx, g))
      /\ log' = Append(log, Invocation(n, op, T, cb, ev, ctx))
      /\ callbacks' = BeforeHandler(cbs, cb)
      /\ lastEvents' = last
      /\ hist' = Invoked(hs, cb)
      /\ validEventTypes' = rules
      /\ ops' = ops + 1
      /\ UNCHANGED << triggerLastEvent, disabled, callbackContext, ret, caps,
                      hosts, env >>

\* on(T, h, {triggerLastEvent: opt})
FlagsOn(T, h, opt) ==
  /\ CanCall
  /\ LET n  == ops + 1
         v  == Validate(T)
         cb == Plain(h)
     IN  IF ~v.valid THEN FlagsReject(n, "on", T, v.rules)
         ELSE
           LET lastOpt == TriggerLastEventOption(opt, triggerLastEvent)
               cbs1    == AddCallback(callbacks, T, cb)
               hs      == Registered(hist, T, cb)
           IN  IF ReplayLastEvent(lastOpt, lastEvents, T)
                 THEN FlagsEnter(n, "on", T, LastEventOf(lastEvents, T), <<cb>>,
                                 cbs1, lastEvents, hs, OnInfo(T, opt), v.rules)
                 ELSE FlagsComplete(Result(n, "on", T, "ok", "cap", <<>>, NoEvent,
                                           OffEvent(T, cb), OnInfo(T, opt)),
                                    cbs1, lastEvents, hs,
                                    caps \cup {OffEvent(T, cb)}, v.rules)

\* off(T, h) and, with cb = NoCallback, off(T).
FlagsOff(T, cb) ==
  /\ CanCall
  /\ LET n == ops + 1
         v == Validate(T)
     IN  IF ~v.valid THEN FlagsReject(n, "off", T, v.rules)
         ELSE FlagsComplete(Result(n, "off", T, "ok", "this", <<>>, NoEvent,
                                   OffEvent(T, cb), NoInfo),
                            OffCallbacks(callbacks, T, cb), lastEvents,
                            OffReturned(hist, T, cb), caps, v.rules)

\* trigger(eventType, args)
FlagsTrigger(T, args) ==
  /\ CanCall
  /\ LET n  == ops + 1
         v  == Validate(T)
         ev == NewEvent(n, T, args)
     IN  IF ~v.valid THEN FlagsReject(n, "trigger", T, v.rules)
         ELSE
           LET last1 == StoreLastEvent(lastEvents, T, ev)
               hs    == Triggered(hist, T, ev, n)
               g     == StartInfo(T)
               snap  == ArrayFrom(callbacks, T)
           IN  IF TriggerSuppressed(disabled, HasCallbacks(callbacks, T))
                 THEN FlagsComplete(Result(n, "trigger", T, "ok", "null", <<>>,
                                           ev, NoCap, g),
                                    callbacks, last1, hs, caps, v.rules)
               ELSE IF snap = <<>>
                 THEN FlagsComplete(Result(n, "trigger", T, "ok", "array", <<>>,
                                           ev, NoCap, g),
                                    callbacks, last1, hs, caps, v.rules)
               ELSE FlagsEnter(n, "trigger", T, ev, snap, callbacks, last1, hs,
                               g, v.rules)

\* Callers that use on, off and trigger.
NextFlags ==
  \/ \E T \in env.types, h \in Handlers, opt \in BOOLEAN : FlagsOn(T, h, opt)
  \/ \E T \in env.types, fn \in PlainCallbacks : FlagsOff(T, fn)
  \/ \E T \in env.types : FlagsOff(T, NoCallback)
  \/ \E T \in env.types, args \in Payloads : FlagsTrigger(T, args)
  \/ Return
  \/ Throw
  \/ Disable
  \/ Enable

SpecFlags == InitFlags /\ [][NextFlags]_vars

(***************************************************************************)
(* Reading the history.                                                     *)
(***************************************************************************)
\* The invocations made by call n, in order.
CallLog(n) == SelectSeq(log, LAMBDA e : e.n = n)

\* The Set members call n invoked, and the user handlers it ran, in order.
CallCallbacks(n) == LET l == CallLog(n) IN [i \in DOMAIN l |-> l[i].cb]

CallHandlers(n) == LET l == CallLog(n) IN [i \in DOMAIN l |-> l[i].h]

Distinct(s) == \A i, j \in DOMAIN s : i # j => s[i] # s[j]

\* ret is the result of the call made last (no call has started since).
Fresh == ret.n = ops /\ ops > 0

\* A trigger call that came back without a handler throwing.
TriggerReturned == ret.op = "trigger" /\ ret.out = "ok"

\* Some rule of the ruleset matches T: string rules by equality, patterns by
\* testing positive.
MatchesSomeRule(T) ==
  \E j \in DOMAIN validEventTypes : RuleMatches(validEventTypes[j], T)

(***************************************************************************)
(* C1                                                                       *)
(***************************************************************************)
C1_RaisesIffNoRule ==
  ret.op \in {"on", "one", "off", "trigger"}
    => (ret.out = "InvalidEventType" <=> ~MatchesSomeRule(ret.type))

C1_RejectedStep ==
  (ops' = ops + 1 /\ ret'.n = ops' /\ ret'.out = "InvalidEventType")
    => UNCHANGED << callbacks, lastEvents, disabled, callbackContext, log,
                    stack, caps >>

\* C1: on, one, off and trigger raise the invalid-event-type error exactly
\* when the given type matches no rule of the ruleset, enabled or disabled;
\* a rejected call leaves registry, last-event cache, enabled flag and context
\* as they were and invokes no handler.
C1_InvalidTypeRejected == [](C1_RaisesIffNoRule) /\ [][C1_RejectedStep]_vars

\* A call is rejected while the dispatcher is disabled and holds a handler
\* and a cached event.
C1_Witness ==
  /\ Fresh
  /\ ret.out = "InvalidEventType"
  /\ disabled
  /\ callbacks # EmptyObject

(***************************************************************************)
(* C2                                                                       *)
(***************************************************************************)
\* C2: when N distinct handlers were registered for T by on / one (none
\* removed) and the dispatcher is enabled, trigger(T) invokes each of them
\* once, in registration order, and returns their N return values in that
\* order.
C2_DeliversAllInOrder ==
  ( /\ TriggerReturned
    /\ ~ret.g.dis0
    /\ ret.g.clean0
    /\ ret.g.regs0 # <<>>
    /\ Distinct(ret.g.regs0) )
  => /\ ret.kind = "array"
     /\ CallHandlers(ret.n) = ret.g.regs0
     /\ ret.arr = [i \in DOMAIN ret.g.regs0 |-> ReturnValue(ret.g.regs0[i])]

\* trigger came back after delivering to two handlers, one registered with on
\* and one with one.
C2_Witness ==
  /\ TriggerReturned
  /\ ~ret.g.dis0 /\ ret.g.clean0 /\ Distinct(ret.g.regs0)
  /\ Len(ret.g.regs0) = 2
  /\ \E i, j \in DOMAIN ret.g.bucket0 :
       ret.g.bucket0[i].k = "fn" /\ ret.g.bucket0[j].k = "once"


(***************************************************************************)
(* C3                                                                       *)
(***************************************************************************)
\* C3: through one registration one(T, h), h is invoked at most once, however
\* often and however nested T is triggered: no onetimeCallback appears twice
\* among the invocations.
C3_OnetimeAtMostOnce ==
  \A i, j \in DOMAIN log :
    (i # j /\ log[i].cb.k = "once") => log[i].cb # log[j].cb

(***************************************************************************)
(* C4                                                                       *)
(***************************************************************************)
\* C4: once off(T, h) has returned, a trigger(T) that starts before h is
\* registered for T again does not invoke h, whether h had been registered
\* with on or with one.
C4_NotInvokedAfterOff ==
  \A k \in DOMAIN stack :
    stack[k].op = "trigger" => stack[k].h \notin stack[k].g.off0

(***************************************************************************)
(* C5                                                                       *)
(***************************************************************************)
\* C5: what one trigger(T) call invokes, and in which order, is the bucket of
\* T as it was when the call started, whatever on / one / off / clear calls
\* the handlers make during the delivery.
C5_DeliversStartBucket ==
  /\ \A k \in DOMAIN stack :
       stack[k].op = "trigger"
         => /\ stack[k].idx <= Len(stack[k].g.bucket0)
            /\ CallCallbacks(stack[k].n) = SubSeq(stack[k].g.bucket0, 1, stack[k].idx)
  /\ (TriggerReturned /\ ret.kind = "array")
       => CallCallbacks(ret.n) = ret.g.bucket0

\* trigger came back after invoking a handler that an off / clear call made
\* during the delivery had removed from the bucket.
C5_Witness ==
  /\ TriggerReturned /\ ret.kind = "array"
  /\ \E i \in DOMAIN ret.g.bucket0 :
       /\ ret.g.bucket0[i].k = "fn"
       /\ ret.g.bucket0[i] \notin Range(ArrayFrom(callbacks, ret.type))
       /\ CallCallbacks(ret.n)[i] = ret.g.bucket0[i]

(***************************************************************************)
(* C6                                                                       *)
(***************************************************************************)
\* What removing exactly the registration (T, cb) leaves.
RemoveExactly(cbs, T, cb) ==
  [t \in DOMAIN cbs |->
     IF t = T THEN SelectSeq(cbs[t], LAMBDA c : c # cb) ELSE cbs[t]]

\* C6 as claimed: the OffEvent closure of on(T, h), invoked again at any later
\* point, changes nothing.
C6_SecondCallNoOp ==
  (Fresh /\ ret.op = "unsubscribe" /\ ret.cap.cb.k = "fn" /\ ret.g.used0)
    => ArrayFrom(callbacks, ret.type) = ret.g.bucket0

C6_ClosureStep ==
  (ops' = ops + 1 /\ ret'.n = ops' /\ ret'.op = "unsubscribe" /\ ret'.cap.cb.k = "fn")
    => /\ callbacks' = RemoveExactly(callbacks, ret'.cap.type, ret'.cap.cb)
       /\ ret'.out = "ok"
       /\ UNCHANGED << lastEvents, disabled, callbackContext, log, stack >>
       /\ ret'.cap \in hist.spent => callbacks' = callbacks

\* C6 (amended): invoking the OffEvent closure of on(T, h) removes exactly the
\* registration (T, h), as off(T, h) does, and nothing else; invoking it again
\* is a no-op as long as h has not been registered for T again in between.
C6_ClosureRemovesExactly == [][C6_ClosureStep]_vars

\* The closure of on(T, h) has been invoked a second time with h not
\* registered again in between.
C6_Witness ==
  Fresh /\ ret.op = "unsubscribe" /\ ret.cap.cb.k = "fn" /\ ret.g.spent0

(***************************************************************************)
(* C7                                                                       *)
(***************************************************************************)
\* C7: the event that trigger(T, payload) hands to the handlers of T and
\* stores in the last-event cache under T has type T, for every payload.
C7_EventTypeIsDispatchType ==
  /\ \A T \in DOMAIN lastEvents : lastEvents[T].type = T
  /\ \A k \in DOMAIN stack :
       stack[k].op = "trigger" => stack[k].ev.type = stack[k].type

(***************************************************************************)
(* C8                                                                       *)
(***************************************************************************)
\* C8: the cache entry of T, and what getLastEventObjectOf(T) returns, is the
\* event of the most recent validated trigger of T since the last
\* removeLastEventObjectOf(T), the object handed to the handlers, whether or
\* not the dispatcher was disabled or T had handlers; triggers of other types
\* leave it alone.
C8_LastEventIsLastTriggered ==
  /\ \A T \in AllTypes :
       /\ T \in DOMAIN lastEvents <=> hist.last[T].has
       /\ hist.last[T].has => lastEvents[T] = hist.last[T].ev
  /\ (Fresh /\ ret.op = "getLastEventObjectOf" /\ hist.last[ret.type].has)
       => ret.kind = "event" /\ ret.ev = hist.last[ret.type].ev
  /\ \A i \in DOMAIN log, T \in AllTypes :
       (log[i].op = "trigger" /\ hist.last[T].has /\ hist.last[T].n = log[i].n)
         => log[i].ev = lastEvents[T]

\* getLastEventObjectOf returns the event of a trigger that was made while
\* the dispatcher was disabled and the type had no handler.
C8_Witness ==
  /\ Fresh /\ ret.op = "getLastEventObjectOf" /\ ret.kind = "event"
  /\ disabled
  /\ callbacks = EmptyObject
  /\ hist.last[ret.type].n = ops - 1

(***************************************************************************)
(* C9                                                                       *)
(***************************************************************************)
\* C9: a trigger(T) call made while the dispatcher is disabled invokes no
\* handler and returns null, and still records its event in the cache; a
\* trigger(T) call made while it is enabled delivers to every handler
\* registered for T.
C9_DisabledSuppressesDelivery ==
  /\ \A i \in DOMAIN stack : stack[i].op = "trigger" => ~stack[i].g.dis0
  /\ (TriggerReturned /\ ret.g.dis0)
       => ret.kind = "null" /\ CallLog(ret.n) = <<>>
  /\ (TriggerReturned /\ ret.g.dis0 /\ Fresh)
       => ret.type \in DOMAIN lastEvents /\ lastEvents[ret.type] = ret.ev
  /\ (TriggerReturned /\ ~ret.g.dis0 /\ ret.g.bucket0 # <<>>)
       => ret.kind = "array" /\ CallCallbacks(ret.n) = ret.g.bucket0

\* trigger returns null for a type with a handler, the dispatcher disabled.
C9_Witness ==
  /\ Fresh /\ TriggerReturned
  /\ ret.g.dis0 /\ ret.g.bucket0 # <<>>
  /\ ret.kind = "null"

(***************************************************************************)
(* C10                                                                      *)
(***************************************************************************)
\* C10: trigger(T) returns null exactly when it invoked no handler and an
\* array exactly when at least one handler ran.
C10_NullIffNoHandlerRan ==
  TriggerReturned
    => /\ ret.kind = "null" <=> CallLog(ret.n) = <<>>
       /\ ret.kind = "array" <=> CallLog(ret.n) # <<>>

(***************************************************************************)
(* C11                                                                      *)
(***************************************************************************)
\* The invocations call n has made are exactly one, of user handler h with
\* event ev, when `must` holds, and none otherwise.
InvokedOnceIff(n, must, h, ev) ==
  IF must
    THEN /\ Len(CallLog(n)) = 1
         /\ CallLog(n)[1].h = h
         /\ CallLog(n)[1].ev = ev
    ELSE CallLog(n) = <<>>

\* C11: on(T, h, options) invokes h exactly once, before it returns, with the
\* cached last event of T, if and only if triggerLastEvent is true (in the
\* options or as the dispatcher-wide default) and the cache holds an entry
\* for T; otherwise on invokes no handler.
C11_OnReplaysLastEvent ==
  /\ \A k \in DOMAIN stack :
       stack[k].op = "on"
         => InvokedOnceIff(stack[k].n, stack[k].g.opt0 /\ stack[k].g.last0,
                           stack[k].cb.h, stack[k].g.lastEv0)
  /\ (ret.op = "on" /\ ret.out = "ok")
       => InvokedOnceIff(ret.n, ret.g.opt0 /\ ret.g.last0, ret.cap.cb.h,
                         ret.g.lastEv0)
  /\ (ret.op = "on" /\ ret.out = "thrown")
       => /\ ret.g.opt0 /\ ret.g.last0
          /\ Len(CallLog(ret.n)) = 1
          /\ CallLog(ret.n)[1].ev = ret.g.lastEv0
  /\ (ret.op = "on" /\ ret.out = "InvalidEventType") => CallLog(ret.n) = <<>>

\* on returned after replaying the cached event because the options asked for
\* it, the dispatcher-wide default being false.
C11_Witness ==
  /\ ret.op = "on" /\ ret.out = "ok"
  /\ ~triggerLastEvent
  /\ ret.g.opt0 /\ ret.g.last0
  /\ Len(CallLog(ret.n)) = 1

(***************************************************************************)
(* C12                                                                      *)
(***************************************************************************)
\* C12: when a handler in the delivery of trigger(T) throws, the trigger call
\* ends with that failure and invokes none of the handlers that come after
\* the thrower in the delivery order: its invocations are the handlers up to
\* and including the thrower, and the call is no longer waiting.
C12_ThrowStopsDelivery ==
  (ret.op = "trigger" /\ ret.out = "thrown")
    => /\ Len(CallLog(ret.n)) = Len(ret.arr) + 1
       /\ Len(CallLog(ret.n)) <= Len(ret.g.bucket0)
       /\ CallCallbacks(ret.n) = SubSeq(ret.g.bucket0, 1, Len(CallLog(ret.n)))
       /\ \A k \in DOMAIN stack : stack[k].n # ret.n

\* The first of two handlers threw and the caller has gone on since.
C12_Witness ==
  /\ ret.op = "trigger" /\ ret.out = "thrown"
  /\ Len(ret.g.bucket0) = 2
  /\ Len(CallLog(ret.n)) = 1

(***************************************************************************)
(* C13                                                                      *)
(***************************************************************************)
\* Number of invocations of Set member cb made by call n.
TimesInvoked(n, cb) == Len(SelectSeq(CallLog(n), LAMBDA e : e.cb = cb))

C13_OncePerPair ==
  /\ \A T \in DOMAIN callbacks : Distinct(callbacks[T])
  /\ \A k \in DOMAIN stack, h \in Handlers :
       stack[k].op = "trigger" => TimesInvoked(stack[k].n, Plain(h)) <= 1
  /\ \A h \in Handlers :
       (TriggerReturned /\ ret.kind = "array" /\ Plain(h) \in Range(ret.g.bucket0))
         => TimesInvoked(ret.n, Plain(h)) = 1
  /\ (Fresh /\ ret.op = "off" /\ ret.out = "ok" /\ ret.cap.cb.k = "fn")
       => ret.cap.cb \notin Range(ArrayFrom(callbacks, ret.type))

C13_OnAgainStep ==
  /\ ( /\ ops' = ops + 1 /\ ret'.n = ops' /\ ret'.op = "on" /\ ret'.out = "ok"
       /\ ret'.cap.cb \in Range(ArrayFrom(callbacks, ret'.type)) )
     => callbacks' = callbacks
  /\ ( /\ ops' = ops + 1 /\ Len(stack') = Len(stack) + 1
       /\ stack'[Len(stack')].op = "on"
       /\ stack'[Len(stack')].cb
            \in Range(ArrayFrom(callbacks, stack'[Len(stack')].type)) )
     => callbacks' = callbacks

\* C13: registration is idempotent per (type, handler): on(T, h) with h
\* already a member of the bucket of T leaves every bucket as it was (h keeps
\* its place in the order), no bucket holds a member twice, a trigger(T)
\* invokes the member h once, and after one off(T, h) h is not in the bucket.
C13_RegistrationIdempotent == [](C13_OncePerPair) /\ [][C13_OnAgainStep]_vars

\* on(T, h1) returned for the second time, after on(T, h2): the bucket still
\* holds h1 before h2.
C13_Witness ==
  /\ Fresh /\ ret.op = "on" /\ ret.out = "ok"
  /\ ret.type \in DOMAIN callbacks
  /\ Len(hist.regs[ret.type]) = 3
  /\ Len(callbacks[ret.type]) = 2
  /\ callbacks[ret.type][1] = ret.cap.cb

(***************************************************************************)
(* C14                                                                      *)
(***************************************************************************)
\* The context in force: the dispatcher until setCallbackContext(c) has been
\* called, the c of its latest call afterwards.
ContextInForce == IF hist.ctx = Absent THEN This ELSE hist.ctx

C14_InvocationStep ==
  log' # log
    => /\ Len(log') = Len(log) + 1
       /\ SubSeq(log', 1, Len(log)) = log
       /\ stack' # <<>>
       /\ LET e == log'[Len(log')]
              f == stack'[Len(stack')]
          IN  /\ e.n = f.n
              /\ e.ev = f.ev
              /\ e.ctx = ContextInForce
              /\ (f.op = "trigger" /\ ops' = ops + 1) => e.ev = lastEvents'[f.type]
              /\ (f.op \in {"on", "one"}) => e.ev = lastEvents[f.type]

\* C14: every handler invocation (delivery by trigger, forwarding by a
\* one-time wrapper, replay by on) passes the event object of the call and
\* has as receiver the context in force at that moment: the dispatcher until
\* setCallbackContext(c) is called and c afterwards, also for handlers that
\* were registered before and for the rest of a delivery in progress.
C14_ReceiverIsCurrentContext ==
  [](callbackContext = ContextInForce) /\ [][C14_InvocationStep]_vars

\* Within one delivery the first handler ran with the dispatcher as receiver
\* and, after it called setCallbackContext(c), the next one with c.
C14_Witness ==
  \E i, j \in DOMAIN log :
    /\ i < j
    /\ log[i].n = log[j].n
    /\ log[i].op = "trigger"
    /\ log[i].ctx = This
    /\ log[j].ctx \in Contexts

(***************************************************************************)
(* C15                                                                      *)
(***************************************************************************)
C15_NullAfterOffAll ==
  /\ \A k \in DOMAIN stack :
       stack[k].op = "trigger" => ~stack[k].g.cleared0
  /\ (TriggerReturned /\ ret.g.cleared0)
       => /\ ret.kind = "null"
          /\ CallLog(ret.n) = <<>>
          /\ ret.g.bucket0 = <<>>
  /\ \A T \in hist.cleared : T \notin DOMAIN callbacks

C15_OffAllStep ==
  ( /\ ops' = ops + 1 /\ ret'.n = ops' /\ ret'.op = "off" /\ ret'.out = "ok"
    /\ ret'.cap.cb = NoCallback )
  => /\ ret'.type \notin DOMAIN callbacks'
     /\ \A T \in DOMAIN callbacks : T # ret'.type
          => T \in DOMAIN callbacks' /\ callbacks'[T] = callbacks[T]
     /\ DOMAIN callbacks' \subseteq DOMAIN callbacks
     /\ UNCHANGED << log, stack >>

C16_AcceptsIffEveryTypeValid ==
  (ret.op \in {"on", "off"} /\ ret.n > 0)
    => /\ ret.out = "ok" <=> \A i \in DOMAIN ret.type : MatchesSomeRule(ret.type[i])
       /\ \A T \in DOMAIN callbacks : MatchesSomeRule(T)

(***************************************************************************)
(* C17                                                                      *)
(***************************************************************************)
\* Every invocation made on dispatcher d (0 the original, else a host) for
\* type T runs a handler that was registered through d for T; a host's
\* handlers run with the host's own dispatcher as receiver, and a host's
\* trigger delivers to its whole bucket whatever the original's flag is.
C17_OwnHandlersOnly ==
  /\ \A i \in DOMAIN log :
       /\ <<log[i].d, log[i].type, log[i].h>> \in hist.by
       /\ log[i].d > 0 => log[i].ctx = HostThis(log[i].d)
  /\ (ret.op = "trigger" /\ ret.d > 0 /\ ret.out = "ok" /\ ret.g.bucket0 # <<>>)
       => ret.kind = "array" /\ CallCallbacks(ret.n) = ret.g.bucket0

\* The dispatcher a step belongs to: that of the call that starts, or of the
\* call whose handler comes back.
StepDispatcher ==
  IF ops' = ops + 1
    THEN IF ret'.n = ops' THEN ret'.d ELSE stack'[Len(stack')].d
    ELSE IF stack # <<>> THEN Top.d ELSE 0

C17_FrameStep ==
  IF Len(hosts') # Len(hosts)
    THEN /\ SubSeq(hosts', 1, Len(hosts)) = hosts
         /\ hosts'[Len(hosts')].callbacks = EmptyObject
         /\ UNCHANGED << callbacks, lastEvents, disabled, callbackContext, log >>
    ELSE /\ StepDispatcher = 0 => hosts' = hosts
         /\ StepDispatcher > 0
              => /\ UNCHANGED << callbacks, lastEvents, disabled, callbackContext >>
                 /\ \A j \in DOMAIN hosts :
                      j # StepDispatcher => hosts'[j] = hosts[j]

\* C17: every host built from the class Api() returns owns a dispatcher of
\* its own: a handler registered through a host is invoked only by triggers
\* of that host, a host's trigger invokes none of the original's handlers,
\* and no call on the original (disable, clear, setCallbackContext, ...)
\* changes a host, nor a call on a host the original or another host.
C17_HostsAreIsolated == [](C17_OwnHandlersOnly) /\ [][C17_FrameStep]_vars

\* A trigger on the original invokes a handler of a type for which a host has
\* registered a handler that the original does not have.
C17_Witness ==
  \E i \in DOMAIN log, h \in Handlers :
    /\ log[i].d = 0 /\ log[i].op = "trigger"
    /\ <<1, log[i].type, h>> \in hist.by
    /\ <<0, log[i].type, h>> \notin hist.by

(***************************************************************************)
(* C18                                                                      *)
(***************************************************************************)
\* C18: a host built from Api() accepts and rejects event types as the
\* original does (same ruleset) and has the same triggerLastEvent default;
\* host.on(T, h) then host.trigger(T, payload) invokes h once with an event
\* whose type is T and whose other fields are the payload's, and
\* host.trigger returns what its dispatcher's trigger returns.
C18_HostBehavesAsOriginal ==
  /\ \A d \in DOMAIN hosts :
       /\ hosts[d].validEventTypes = validEventTypes
       /\ hosts[d].triggerLastEvent = triggerLastEvent
  /\ (ret.d > 0 /\ ret.op \in {"on", "one", "off", "trigger"})
       => (ret.out = "InvalidEventType" <=> ~MatchesSomeRule(ret.type))
  /\ \A h \in Handlers :
       ( /\ ret.d > 0 /\ ret.op = "trigger" /\ ret.out = "ok"
         /\ ret.g.bucket0 = <<Plain(h)>> )
       => /\ Len(CallLog(ret.n)) = 1
          /\ CallLog(ret.n)[1].h = h
          /\ CallLog(ret.n)[1].ev = ret.ev
          /\ ret.ev.type = ret.type
          /\ ret.arr = <<ReturnValue(h)>>

(***************************************************************************)
(* C19                                                                      *)
(***************************************************************************)
\* C19: getLastEventObjectOf(T) never raises, returns null for every name T
\* that has not been triggered since construction or since the last
\* removeLastEventObjectOf(T), and returns a value other than null only if a
\* validated trigger of T recorded it.
C19_NullUnlessTriggered ==
  (Fresh /\ ret.op = "getLastEventObjectOf")
    => /\ ret.out = "ok"
       /\ ~hist.last[ret.type].has => ret.kind = "null"
       /\ ret.kind # "null"
            => /\ hist.last[ret.type].has
               /\ ret.kind = "event"
               /\ ret.ev = hist.last[ret.type].ev

(***************************************************************************)
(* C20                                                                      *)
(***************************************************************************)
C20_RemoveStep ==
  /\ ( /\ ops' = ops + 1 /\ ret'.n = ops'
       /\ ret'.op = "removeLastEventObjectOf" )
     => /\ ret'.out = "ok"
        /\ IF ret'.type \in DOMAIN lastEvents
             THEN ret'.kind = "event" /\ ret'.ev = lastEvents[ret'.type]
             ELSE ret'.kind = "null"
        /\ ret'.type \notin DOMAIN lastEvents'
        /\ DOMAIN lastEvents' = DOMAIN lastEvents \ {ret'.type}
        /\ \A T \in DOMAIN lastEvents' : lastEvents'[T] = lastEvents[T]
        /\ UNCHANGED << callbacks, disabled, callbackContext, log, stack >>
  /\ ( /\ ops' = ops + 1 /\ ret'.n = ops'
       /\ ret'.op = "getLastEventObjectOf"
       /\ ret'.type \notin DOMAIN lastEvents )
     => ret'.kind = "null"

Added(cbs, T, cb) ==
  [t \in DOMAIN cbs \cup {T} |->
     IF t # T THEN cbs[t]
     ELSE IF T \notin DOMAIN cbs THEN <<cb>>
     ELSE IF cb \in Range(cbs[T]) THEN cbs[T]
     ELSE Append(cbs[T], cb)]

\* The call that starts in this step (number ops + 1) is op and ends at once.
Returns(op) == ops' = ops + 1 /\ ret'.n = ops' /\ ret'.op = op /\ ret'.out = "ok"

\* The call that starts in this step is op and waits for a handler.
Waits(op) ==
  /\ ops' = ops + 1 /\ Len(stack') = Len(stack) + 1
  /\ stack'[Len(stack')].op = op

C21_ToggleStep ==
  /\ (Returns("disable") \/ Returns("enable"))
       => /\ disabled' = (ret'.op = "disable")
          /\ UNCHANGED << callbacks, lastEvents, callbackContext, log, stack >>
  /\ (Returns("on") \/ Returns("one"))
       => callbacks' = Added(callbacks, ret'.type, ret'.cap.cb)
  /\ Waits("on")
       => callbacks' = Added(callbacks, stack'[Len(stack')].type, stack'[Len(stack')].cb)
  /\ Returns("off")
       => callbacks' = IF ret'.cap.cb = NoCallback
                         THEN DeleteKey(callbacks, ret'.type)
                         ELSE RemoveExactly(callbacks, ret'.type, ret'.cap.cb)

C21_DeliveredAfterEnable ==
  /\ (TriggerReturned /\ ~ret.g.dis0 /\ ret.g.bucket0 # <<>>)
       => ret.kind = "array" /\ CallCallbacks(ret.n) = ret.g.bucket0
  /\ \A k \in DOMAIN stack : \A h \in Handlers :
       (stack[k].op = "trigger" /\ h \in stack[k].g.off0)
         => Plain(h) \notin Range(CallCallbacks(stack[k].n))
  /\ \A T \in EventTypes, h \in Handlers :
       (<<T, h>> \in hist.offline /\ T \notin hist.touched)
         => /\ T \in DOMAIN callbacks
            /\ \E i \in DOMAIN callbacks[T] : callbacks[T][i].h = h

\* C21: disable() and enable() change the enabled flag and nothing else, and
\* on, one and off do to the registry the same whether the dispatcher is
\* disabled or not: a handler registered while disabled is in the bucket and
\* is delivered by a trigger made after enable(), a handler removed while
\* disabled is not.
C21_OnlyDeliveryIsSuppressed ==
  [](C21_DeliveredAfterEnable) /\ [][C21_ToggleStep]_vars

\* After enable(), trigger delivered to a handler that had been registered
\* while the dispatcher was disabled.
C21_Witness ==
  /\ TriggerReturned /\ ret.kind = "array" /\ ~ret.g.dis0
  /\ \E i \in DOMAIN CallLog(ret.n) :
       <<ret.type, CallLog(ret.n)[i].h>> \in hist.offline

(***************************************************************************)
(* C22                                                                      *)
(***************************************************************************)
C22_NullAfterClear ==
  /\ \A k \in DOMAIN stack : stack[k].op = "trigger" => ~stack[k].g.wiped0
  /\ (TriggerReturned /\ ret.g.wiped0)
       => ret.kind = "null" /\ CallLog(ret.n) = <<>>
  /\ \A T \in hist.wiped : T \notin DOMAIN callbacks

C22_ClearStep ==
  Returns("clear")
    => /\ callbacks' = EmptyObject
       /\ UNCHANGED << lastEvents, disabled, callbackContext, validEventTypes,
                       triggerLastEvent, log, stack >>

RightEvent(n, T, given) ==
  \A i \in DOMAIN CallLog(n) :
    IF given # NoEvent
      THEN CallLog(n)[i].ev = given /\ T = given.type
      ELSE CallLog(n)[i].ev.id = n

\* C23: trigger(eventObject) hands the very object it was given to every
\* handler registered for eventObject.type and stores that object in the
\* cache under eventObject.type; trigger(T, payload) hands the handlers an
\* event constructed by that call, a new one per call.
C23_GivenObjectIsDelivered ==
  /\ \A k \in DOMAIN stack :
       stack[k].op = "trigger"
         => RightEvent(stack[k].n, stack[k].type, stack[k].g.given0)
  /\ ret.op = "trigger" /\ ret.out \in {"ok", "thrown"}
       => RightEvent(ret.n, ret.type, ret.g.given0)
  /\ (TriggerReturned /\ ret.kind = "array" /\ ret.g.given0 # NoEvent)
       => CallCallbacks(ret.n) = ret.g.bucket0
  /\ (Fresh /\ TriggerReturned /\ Len(stack) = 0)
       => /\ ret.type \in DOMAIN lastEvents
          /\ lastEvents[ret.type]
               = IF ret.g.given0 # NoEvent THEN ret.g.given0 ELSE ret.ev
          /\ ret.g.given0 = NoEvent => ret.ev.id = ret.n
  /\ \A i, j \in DOMAIN log :
       (log[i].op = "trigger" /\ log[j].op = "trigger" /\ log[i].n # log[j].n
        /\ log[i].ev.id # 0)
         => log[i].ev.id # log[j].ev.id

\* trigger(eventObject) returned after handing the given object to two
\* handlers; the cache holds that object.
C23_Witness ==
  /\ Fresh /\ TriggerReturned /\ ret.kind = "array"
  /\ ret.g.given0 # NoEvent
  /\ Len(CallLog(ret.n)) = 2
  /\ lastEvents[ret.type] = ret.g.given0

(***************************************************************************)
(* C24                                                                      *)
(***************************************************************************)
\* C24: in every reachable state every event type that is a key of the
\* registry has a non-empty collection of handlers: an off(T, h), a call of
\* an OffEvent closure or the self-removal of a one-time wrapper that
\* removes the last handler of T removes the key T as well.
C24_NoEmptyBucket ==
  \A T \in DOMAIN callbacks : callbacks[T] # <<>>

(***************************************************************************)
(* C25                                                                      *)
(***************************************************************************)
\* The place in the log of the invocation the k-th waiting call waits for.
RunningAt(k) ==
  CHOOSE p \in DOMAIN log :
    /\ log[p].n = stack[k].n
    /\ \A q \in DOMAIN log : log[q].n = stack[k].n => q <= p

\* C25: a one-time wrapper removes itself from the bucket of T before it
\* forwards to h: while h runs the wrapper is not in the bucket, a trigger(T)
\* that h makes does not have the wrapper in its delivery and so does not
\* invoke h through it again, and nothing invokes the wrapper while h runs.
C25_WrapperGoneWhileHandlerRuns ==
  \A k \in DOMAIN stack :
    stack[k].cb.k = "once"
      => /\ stack[k].cb \notin Range(ArrayFrom(callbacks, stack[k].cb.type))
         /\ \A i \in DOMAIN log : i > RunningAt(k) => log[i].cb # stack[k].cb
         /\ \A j \in DOMAIN stack :
              (j > k /\ stack[j].op = "trigger")
                => stack[k].cb \notin Range(stack[j].snap)

\* The handler of a one-time wrapper is running; the trigger of the same
\* type it made has delivered to another handler and has returned.
C25_Witness ==
  /\ Len(stack) = 1
  /\ stack[1].op = "trigger" /\ stack[1].cb.k = "once"
  /\ Fresh /\ TriggerReturned /\ ret.kind = "array"
  /\ ret.n > stack[1].n
  /\ ret.type = stack[1].type
  /\ CallLog(ret.n) # <<>>

(***************************************************************************)
(* C26                                                                      *)
(***************************************************************************)
C26_CancelledNotInvoked ==
  /\ \A k \in DOMAIN stack :
       stack[k].op = "trigger"
         => Range(CallCallbacks(stack[k].n)) \cap stack[k].g.cancelled0 = {}
  /\ ret.op = "trigger"
       => Range(CallCallbacks(ret.n)) \cap ret.g.cancelled0 = {}
  /\ (TriggerReturned /\ ~ret.g.dis0 /\ ret.g.bucket0 # <<>>)
       => CallCallbacks(ret.n) = ret.g.bucket0
  /\ \A c \in hist.used :
       c.cb.k = "once" => c.cb \notin Range(ArrayFrom(callbacks, c.type))

C26_CancelStep ==
  ( /\ ops' = ops + 1 /\ ret'.n = ops' /\ ret'.op = "unsubscribe"
    /\ ret'.cap.cb.k = "once" )
  => /\ ret'.out = "ok"
     /\ callbacks' = RemoveExactly(callbacks, ret'.cap.type, ret'.cap.cb)
     /\ UNCHANGED << lastEvents, disabled, callbackContext, log, stack >>

\* C26: invoking the OffEvent closure that one(T, h) returned, before T is
\* triggered, cancels the registration: it removes the wrapper from the
\* bucket of T and nothing else, and a trigger(T) made afterwards does not
\* invoke h through it and delivers to the other handlers of T.
C26_UnsubscribeCancelsOnetime ==
  [](C26_CancelledNotInvoked) /\ [][C26_CancelStep]_vars

\* After the closure of a one(T, h1) was invoked, trigger(T) delivered to the
\* other handler of T only.
C26_Witness ==
  /\ TriggerReturned /\ ret.kind = "array"
  /\ ret.g.cancelled0 # {}
  /\ Len(ret.g.regs0) = 2
  /\ Len(CallLog(ret.n)) = 1

(***************************************************************************)
(* C27                                                                      *)
(***************************************************************************)
\* The registration that the i-th invocation ran through was made by one and
\* invoked by the replay of that same one call.
ReplayedByOne(i) == log[i].op = "one"

\* C27: when one(T, h, options) replays the cached last event of T, the
\* replay consumes the registration: one has invoked h exactly once, with the
\* cached event, when it returns; from the moment h is entered the wrapper is
\* not in the bucket of T; and that replay is the only invocation the wrapper
\* ever gets, so no later trigger(T) invokes h through it.
C27_ReplayConsumesOnetime ==
  /\ (ret.op = "one" /\ ret.out = "ok" /\ ret.g.opt0 /\ ret.g.last0)
       => /\ InvokedOnceIff(ret.n, TRUE, ret.cap.cb.h, ret.g.lastEv0)
          /\ CallLog(ret.n)[1].cb = ret.cap.cb
  /\ \A i \in DOMAIN log :
       ReplayedByOne(i)
         => /\ log[i].cb \notin Range(ArrayFrom(callbacks, log[i].type))
            /\ \A j \in DOMAIN log : log[j].cb = log[i].cb => j = i
            /\ \A k \in DOMAIN stack :
                 (stack[k].op = "trigger" /\ stack[k].n > log[i].n)
                   => log[i].cb \notin Range(stack[k].snap)

\* trigger(T) returned after a one(T, h) that replayed the cached event had
\* returned, and delivered to nobody.
C27_Witness ==
  /\ Fresh /\ TriggerReturned /\ ret.kind = "array"
  /\ stack = <<>>
  /\ CallLog(ret.n) = <<>>
  /\ \E i \in DOMAIN log :
       ReplayedByOne(i) /\ log[i].type = ret.type /\ log[i].n < ret.n

(***************************************************************************)
(* C28                                                                      *)
(***************************************************************************)
\* on or one.
Registers(op) == op \in {"on", "one"}

\* C28: the disabled flag suppresses the delivery of trigger only.  An on or
\* one call that starts while the dispatcher is disabled, with
\* triggerLastEvent in effect and a cached event for T, invokes h exactly
\* once with that cached event; a trigger that starts while it is disabled
\* invokes nothing.
C28_ReplayIgnoresDisabled ==
  /\ \A k \in DOMAIN stack :
       (Registers(stack[k].op) /\ stack[k].g.dis0)
         => /\ stack[k].g.opt0 /\ stack[k].g.last0
            /\ InvokedOnceIff(stack[k].n, TRUE, stack[k].cb.h, stack[k].g.lastEv0)
  /\ (Registers(ret.op) /\ ret.out = "ok" /\ ret.g.dis0)
       => InvokedOnceIff(ret.n, ret.g.opt0 /\ ret.g.last0, ret.cap.cb.h,
                         ret.g.lastEv0)
  /\ (ret.op = "trigger" /\ ret.g.dis0) => CallLog(ret.n) = <<>>
  /\ \A k \in DOMAIN stack : stack[k].op = "trigger" => ~stack[k].g.dis0

\* on returned while the dispatcher was still disabled, having replayed the
\* cached event to its handler.
C28_Witness ==
  /\ Fresh /\ Registers(ret.op) /\ ret.out = "ok"
  /\ ret.g.dis0 /\ disabled
  /\ ret.g.opt0 /\ ret.g.last0
  /\ Len(CallLog(ret.n)) = 1
  /\ CallLog(ret.n)[1].ev = ret.g.lastEv0

(***************************************************************************)
(* C29                                                                      *)
(***************************************************************************)
\* A trigger that started enabled delivers to its whole start bucket and
\* returns one response per handler, whatever the disabled flag has become
\* meanwhile; a trigger that started disabled has invoked nothing and
\* returned null.
C29_StartFlagDecides ==
  /\ \A k \in DOMAIN stack :
       stack[k].op = "trigger"
         => /\ ~stack[k].g.dis0
            /\ stack[k].idx <= Len(stack[k].g.bucket0)
            /\ CallCallbacks(stack[k].n) = SubSeq(stack[k].g.bucket0, 1, stack[k].idx)
  /\ (TriggerReturned /\ ~ret.g.dis0 /\ ret.g.bucket0 # <<>>)
       => /\ ret.kind = "array"
          /\ CallCallbacks(ret.n) = ret.g.bucket0
          /\ Len(ret.arr) = Len(ret.g.bucket0)
  /\ (TriggerReturned /\ ret.g.dis0)
       => /\ ret.kind = "null"
          /\ CallLog(ret.n) = <<>>

\* disable() returns with the flag set and leaves the waiting calls, the
\* invocations made and the registry as they are.
C29_DisableStep ==
  (ops' = ops + 1 /\ ret'.n = ops' /\ ret'.op = "disable")
    => /\ disabled'
       /\ UNCHANGED << stack, log, callbacks, lastEvents >>

\* C29: disable() called from inside a handler during a delivery of T does
\* not cancel that delivery: the remaining handlers of the in-flight
\* trigger(T) are still invoked and their responses returned; only trigger
\* calls that start after the disable(), nested ones included, invoke nothing
\* and return null.
C29_DisableSparesInFlightDelivery ==
  [](C29_StartFlagDecides) /\ [][C29_DisableStep]_vars

\* The first of two handlers disabled the dispatcher; the second was invoked
\* all the same and both responses were returned.
C29_Witness ==
  /\ TriggerReturned /\ stack = <<>>
  /\ ~ret.g.dis0 /\ disabled
  /\ Len(ret.g.bucket0) = 2
  /\ CallCallbacks(ret.n) = ret.g.bucket0
  /\ Len(ret.arr) = 2
  /\ ret.g.bucket0[1] \notin hist.dark
  /\ ret.g.bucket0[2] \in hist.dark

(***************************************************************************)
(* C30                                                                      *)
(***************************************************************************)
\* The position in the log of the last invocation that call n made.
LastCallAt(n) ==
  CHOOSE p \in DOMAIN log :
    /\ log[p].n = n
    /\ \A q \in DOMAIN log : log[q].n = n => q <= p

\* The Set member whose handler threw out of the call in ret.
Thrower == log[LastCallAt(ret.n)].cb

\* The last call to come back was a trigger that a handler threw out of.
TriggerThrew == ret.op = "trigger" /\ ret.out = "thrown"

\* After a handler threw out of trigger(T): the event of that trigger is the
\* cache entry of T unless a call has stored or removed the entry since the
\* trigger stored it; a one-time wrapper that threw is not in the bucket and
\* no call that started after the throw invokes it or has it in its delivery
\* list.
C30_StateAfterThrow ==
  TriggerThrew
    => /\ (hist.last[ret.type].has /\ hist.last[ret.type].n = ret.n)
            => /\ ret.type \in DOMAIN lastEvents
               /\ lastEvents[ret.type] = ret.ev
       /\ Thrower.k = "once"
            => /\ Thrower \notin Range(ArrayFrom(callbacks, ret.type))
               /\ \A i \in DOMAIN log :
                    (i > LastCallAt(ret.n) /\ log[i].n > ret.n)
                      => log[i].cb # Thrower
               /\ \A k \in DOMAIN stack :
                    (stack[k].op = "trigger" /\ stack[k].n > ret.n)
                      => Thrower \notin Range(stack[k].snap)

\* The step in which the handler throws changes neither the registry nor the
\* cache, the flag, the context or the invocations made.
C30_ThrowStep ==
  (stack # <<>> /\ stack' = Pop /\ ret'.out = "thrown" /\ ret'.n = Top.n)
    => UNCHANGED << callbacks, lastEvents, disabled, callbackContext, log >>

\* C30: when a handler throws out of trigger(T), nothing done before the throw
\* is rolled back: the event of that trigger is the last-event cache entry of
\* T, the registry changes that earlier handlers made persist, and a one-time
\* handler that itself threw is already deregistered, so that a later
\* trigger(T) does not invoke it again.
C30_ThrowRollsNothingBack ==
  [](C30_StateAfterThrow) /\ [][C30_ThrowStep]_vars

\* The first handler removed itself and returned, the one-time handler after
\* it threw: the cache holds the event, the first handler is still gone and
\* so is the wrapper.
C30_Witness ==
  /\ TriggerThrew /\ stack = <<>>
  /\ Len(ret.g.bucket0) = 2
  /\ Len(CallLog(ret.n)) = 2
  /\ ret.g.bucket0[1].k = "fn"
  /\ Thrower.k = "once"
  /\ ret.type \in DOMAIN lastEvents /\ lastEvents[ret.type] = ret.ev
  /\ ArrayFrom(callbacks, ret.type) = <<>>

(***************************************************************************)
(* C31                                                                      *)
(***************************************************************************)
\* Some one-time callback stands in the list ahead of another handler.
OnetimeAhead(list) ==
  \E i \in DOMAIN list : list[i].k = "once" /\ i < Len(list)

\* C31: in the array-backed dispatcher, when a one-time handler registered
\* for T ahead of other handlers removes itself during the delivery of
\* trigger(T), and the handlers call nothing else, every handler of the list
\* is invoked exactly once by that trigger and the result holds one return
\* value per registered handler.
C31_SelfRemovalSkipsNobody ==
  ( /\ Fresh /\ TriggerReturned /\ ret.kind = "array"
    /\ OnetimeAhead(ret.g.bucket0) )
  => /\ CallCallbacks(ret.n) = ret.g.bucket0
     /\ Len(ret.arr) = Len(ret.g.bucket0)
     /\ \A i \in DOMAIN ret.arr : ret.arr[i] # Hole

(***************************************************************************)
(* C32                                                                      *)
(***************************************************************************)
\* The operations that take an event type.
TypedOps == {"on", "one", "off", "unsubscribe", "trigger"}

\* The step belongs to a call for type T: the call comes back at once, or it
\* enters its first handler, or a handler it waits for comes back (and the
\* call goes on or returns).
StepForType(T) ==
  \/ /\ ops' = ops + 1 /\ ret'.n = ops'
     /\ ret'.op \in TypedOps /\ ret'.type = T
  \/ /\ ops' = ops + 1 /\ Len(stack') = Len(stack) + 1
     /\ stack'[Len(stack')].type = T
  \/ /\ ops' = ops /\ stack # <<>> /\ Top.type = T

\* Bucket and cache entry of T are the same before and after the step.
Untouched(T) ==
  /\ (T \in DOMAIN callbacks') <=> (T \in DOMAIN callbacks)
  /\ ArrayFrom(callbacks', T) = ArrayFrom(callbacks, T)
  /\ (T \in DOMAIN lastEvents') <=> (T \in DOMAIN lastEvents)
  /\ LastEventOf(lastEvents', T) = LastEventOf(lastEvents, T)

C32_TypeStep ==
  \A T \in EventTypes :
    StepForType(T) => \A T2 \in EventTypes \ {T} : Untouched(T2)

\* Every handler a trigger of T invoked had been registered for T.
C32_InvokesOwnTypeOnly ==
  \A i \in DOMAIN log :
    log[i].op = "trigger" => <<0, log[i].type, log[i].h>> \in hist.by

\* C32: on, one, off, the OffEvent closure and trigger applied to type T leave
\* the bucket of every other type as it is (same members, same order) and
\* leave its last-event cache entry as it is, in every step of the call; and
\* trigger(T) invokes only handlers that were registered for T.
C32_IsolatedPerType ==
  [](C32_InvokesOwnTypeOnly) /\ [][C32_TypeStep]_vars

\* trigger(T) came back having invoked the handler of T while another type
\* holds a handler that was never registered for T.
C32_Witness ==
  /\ Fresh /\ TriggerReturned /\ ret.kind = "array"
  /\ Len(CallLog(ret.n)) = 1
  /\ \E T2 \in EventTypes \ {ret.type} :
       /\ Len(ArrayFrom(callbacks, T2)) = 1
       /\ <<0, ret.type, ArrayFrom(callbacks, T2)[1].h>> \notin hist.by

(***************************************************************************)
(* C33                                                                      *)
(***************************************************************************)
\* off(T, h) has just come back.
OffHandlerStep ==
  /\ ops' = ops + 1 /\ ret'.n = ops' /\ ret'.op = "off"
  /\ ret'.out = "ok" /\ ret'.cap.cb.k = "fn"

\* off(T, h) changes the bucket of T by removing h and nothing else, and
\* changes nothing at all when T has no bucket or h is not in it.
C33_OffStep ==
  OffHandlerStep
    => /\ callbacks' = RemoveExactly(callbacks, ret'.type, ret'.cap.cb)
       /\ ( \/ ret'.type \notin DOMAIN callbacks
            \/ ret'.cap.cb \notin Range(ArrayFrom(callbacks, ret'.type)) )
            => callbacks' = callbacks
       /\ UNCHANGED << lastEvents, disabled, callbackContext, log, stack, caps,
                       validEventTypes, triggerLastEvent >>

\* off fails only by rejecting a type that matches no rule; a type that
\* matches one is accepted whether or not it has a bucket.
C33_OffAccepted ==
  (ret.op = "off" /\ ret.n > 0)
    => /\ ret.out \in {"ok", "InvalidEventType"}
       /\ ret.out = "ok" <=> MatchesSomeRule(ret.type)

\* C33: off(T, h) for a valid type T raises no error, and is a no-op that
\* changes no state when T has no bucket or when h is not registered for T;
\* off(T, h) never removes a handler other than h.
C33_OffMissingIsNoOp ==
  [](C33_OffAccepted) /\ [][C33_OffStep]_vars

(***************************************************************************)
(* C34                                                                      *)
(***************************************************************************)
\* C34: on and one of a host forward the event type and the handler only; a
\* third options argument is ignored.  Through a host the cached last event
\* is replayed at registration, to the handler and exactly once, if and only
\* if the dispatcher-wide triggerLastEvent default is true and the host's own
\* dispatcher holds a cache entry for the type.
C34_HostReplaysByDefaultOnly ==
  /\ \A k \in DOMAIN stack :
       (stack[k].d > 0 /\ Registers(stack[k].op))
         => /\ hosts[stack[k].d].triggerLastEvent /\ stack[k].g.last0
            /\ InvokedOnceIff(stack[k].n, TRUE, stack[k].cb.h, stack[k].g.lastEv0)
  /\ (ret.d > 0 /\ Registers(ret.op) /\ ret.out = "ok")
       => InvokedOnceIff(ret.n,
                         hosts[ret.d].triggerLastEvent /\ ret.g.last0,
                         ret.cap.cb.h, ret.g.lastEv0)

\* A host's on was given {triggerLastEvent: true}, the default being false
\* and the host's cache holding an event for the type: nothing was replayed.
C34_Witness ==
  /\ Fresh /\ ret.d > 0 /\ Registers(ret.op) /\ ret.out = "ok"
  /\ ~triggerLastEvent /\ ~hosts[ret.d].triggerLastEvent
  /\ ret.g.opt0 /\ ret.g.last0
  /\ CallLog(ret.n) = <<>>

(***************************************************************************)
(* C35                                                                      *)
(***************************************************************************)
\* The call was turned down by validateEventType.
Rejected(r) == r.out = "InvalidEventType"

\* The ruleset of the dispatcher and of every host dispatcher is the same
\* after the step; and a call that comes back for the type of the call that
\* came back before it was validated with the same outcome.
C35_RulesetStep ==
  /\ validEventTypes' = validEventTypes
  /\ \A d \in DOMAIN hosts :
       hosts'[d].validEventTypes = hosts[d].validEventTypes
  /\ (/\ ops' = ops + 1 /\ ret'.n = ops'
      /\ ret'.op \in TypedOps /\ ret.op \in TypedOps
      /\ ret'.type = ret.type)
       => (Rejected(ret') <=> Rejected(ret))

\* C35: no dispatcher operation changes the validity ruleset after
\* construction: the ruleset is the same in every reachable state, and
\* validating the same event type twice gives the same outcome.
C35_RulesetNeverChanges == [][C35_RulesetStep]_vars

====
